---- MODULE Spec2Model ----
(***************************************************************************)
(* The Clean-Master build of update2025Tracking (src/06_CleanMaster..js):  *)
(* buildAllOrdersClean and the helpers it calls, as a state machine.       *)
(*                                                                         *)
(* One behaviour is a sequence of invocations of buildAllOrdersClean (and  *)
(* of resetCleanMasterBuildState between them) over two raw order sheets   *)
(* that are fixed when the behaviour starts.  An invocation is cut at the  *)
(* points where the code can return or throw: lock, start-up, the header   *)
(* checks of each phase, every chunk of each scan loop, the end of each    *)
(* scan, finish_.  The soft time limit is a nondeterministic choice at the *)
(* top of every chunk (timeUp_ reads the wall clock).                      *)
(*                                                                         *)
(* Scaling.  CHUNK_ROWS (1500 in the source) and BUFFER_FLUSH_ROWS (2000)  *)
(* are scaled down so that chunk boundaries and periodic buffer flushes    *)
(* fall inside sheets of a handful of rows.  Money and quantities are      *)
(* integers on the sheets; prices computed by the pricing repair are exact *)
(* rationals <<numerator, denominator>> (floating rounding is not          *)
(* modelled).                                                              *)
(***************************************************************************)
EXTENDS Integers, Sequences, FiniteSets, TLC

\* ------------------------------------------------------------------ bounds

\* Data rows over both raw sheets together.
MaxRows == 4

\* Rows over both sheets that are not order lines (blank, test, banned, ...).
MaxSkipRows == 1

\* Data rows over both sheets when a sheet is missing or lacks a column.
MaxFaultRows == 2

\* Data rows over both sheets where calls contend for the lock.
MaxLockRows == 2

\* Calls that give up on the lock.
MaxLockTimeouts == 1

\* Data rows of a workbook whose lines include zero and blank quantities.
MaxLineRows == 2

\* Data rows of a workbook whose date cells vary.
MaxDateRows == 3

\* Sibling lines of a group handed to the pricing repair on its own.
MaxGroupLines == 2

\* Body rows of a clean sheet handed to the order-date backfill.
MaxCleanRows == 3

\* Data rows over both sheets of a build that is re-invoked until it is done.
MaxLiveRows == 4

\* Data rows over both sheets of a build whose invocations the host may kill.
MaxCrashRows == 4

\* Invocations the host kills.
MaxKills == 2

\* Data rows over both sheets of a build beside which the reset is called.
MaxResetRows == 3

\* Calls of resetCleanMasterBuildState beside a build.
MaxResets == 2

\* Data rows over both sheets of a workbook on which the pipelines are run.
MaxPipelineRows == 3

\* Runs of a pipeline entry point.
MaxPipelineRuns == 3

\* ------------------------------------------------- program constants (scaled)

\* const CHUNK_ROWS = 1500, scaled.
CHUNK_ROWS == 2

\* if (buffer.length >= 2000), scaled.
BUFFER_FLUSH_ROWS == 1

\* first data row of a sheet (row 1 is the header)
FIRST_DATA_ROW == 2

\* shouldExcludeSquarespaceOrder_: if (yr !== 2026) return false
RENEWAL_YEAR == 2026

\* ------------------------------------------------------------- arithmetic

Abs(x) == IF x < 0 THEN -x ELSE x

Max(a, b) == IF a >= b THEN a ELSE b

Min(a, b) == IF a <= b THEN a ELSE b

RECURSIVE GCD(_, _)
GCD(a, b) == IF b = 0 THEN a ELSE GCD(b, a % b)

\* A JavaScript number that the build computes: the exact rational n/d, reduced.
Frac(n, d) ==
  IF n = 0 THEN <<0, 1>>
  ELSE LET g == GCD(Abs(n), Abs(d)) IN <<n \div g, d \div g>>

Num(n) == <<n, 1>>

RMul(a, b) == Frac(a[1] * b[1], a[2] * b[2])

RDiv(a, b) == Frac(a[1] * b[2], a[2] * b[1])

RPos(a) == a[1] > 0

RAdd(a, b) == Frac(a[1] * b[2] + b[1] * a[2], a[2] * b[2])

RECURSIVE RSum(_)
RSum(s) == IF s = <<>> THEN Num(0) ELSE RAdd(s[1], RSum(Tail(s)))

\* --------------------------------------------------------------- sheet cells

\* A sheet cell is <<>> (blank) or <<n>> (a number).
BlankCell == <<>>

Cell(n) == <<n>>

\* s_(v) !== "" for a cell
s_nonEmpty(c) == c # BlankCell

\* parseMoney_: null/blank -> 0, a number -> itself
parseMoney_(c) == IF c = BlankCell THEN 0 ELSE c[1]

\* parseQty_: null/blank -> 0, a number -> itself
parseQty_(c) == IF c = BlankCell THEN 0 ELSE c[1]

\* ------------------------------------------------------------------- dates

\* A date cell of a raw row is [kind, v]: "blank" (empty cell), "date" (a
\* valid Date object of year v, as Sheets returns for a date cell), "number"
\* (the serial number v), "text" (a string that new Date() parses to a date
\* of year v, e.g. an ISO timestamp, leading apostrophes stripped) or "junk"
\* (a string that does not parse, e.g. "n/a").  A parsed date is kept by its
\* year; 0 stands for null.
BlankDate == [kind |-> "blank", v |-> 0]

DateObject(y) == [kind |-> "date", v |-> y]

SerialNumber(n) == [kind |-> "number", v |-> n]

DateText(y) == [kind |-> "text", v |-> y]

JunkText == [kind |-> "junk", v |-> 0]

\* The year of new Date(Math.round((v - 25569) * 86400 * 1000)): v days after
\* 1899-12-30, 25569 being 1970-01-01; four years are 1461 days.
SerialYear(v) == 1970 + ((v - 25569) * 4) \div 1461

\* parseAnyDate_(v): the year of the parsed date, 0 for null
parseAnyDate_(cell) ==
  CASE cell.kind = "blank"  -> 0
    [] cell.kind = "date"   -> cell.v
    [] cell.kind = "number" -> SerialYear(cell.v)
    [] cell.kind = "text"   -> cell.v
    [] OTHER                -> 0

\* a || b on parsed dates: a Date object is truthy, null is not
OrElse(a, b) == IF a # 0 THEN a ELSE b

\* The order date that tries Created At before the Processed At columns.
ShopifyOrderDate_CreatedAtFirst(row) ==
  OrElse(parseAnyDate_(row.dates.createdAt),
  OrElse(parseAnyDate_(row.dates.processedLocal),
  OrElse(parseAnyDate_(row.dates.processedAt),
  OrElse(parseAnyDate_(row.dates.createdLocal),
  OrElse(parseAnyDate_(row.dates.updatedAt), 0)))))

\* lines 319-326: the order date of a Shopify row
ShopifyOrderDate(row) ==
  OrElse(parseAnyDate_(row.dates.processedLocal),
  OrElse(parseAnyDate_(row.dates.processedAt),
  OrElse(parseAnyDate_(row.dates.createdLocal),
  OrElse(parseAnyDate_(row.dates.createdAt),
  OrElse(parseAnyDate_(row.dates.updatedAt), 0)))))

\* lines 591-595: the order date of a Squarespace row
SquarespaceOrderDate(row) ==
  OrElse(parseAnyDate_(row.dates.createdOn),
  OrElse(parseAnyDate_(row.dates.modifiedOn), 0))

\* The date cells of a Shopify row, in the order Processed At (Local),
\* Processed At, Created At (Local), Created At, Updated At.
ShopifyDates(a, b, c, d, e) ==
  [processedLocal |-> a, processedAt |-> b, createdLocal |-> c, createdAt |-> d,
   updatedAt |-> e]

\* The date cells of a Squarespace row: Created On, Modified On.
SquarespaceDates(a, b) == [createdOn |-> a, modifiedOn |-> b]

\* ------------------------------------------------------------------ emails

\* A string is the sequence of its characters; <<>> is "" (a blank cell).
NoEmail == <<>>

LowerCaseLetters ==
  <<"a", "b", "c", "d", "e", "f", "g", "h", "i", "j", "k", "l", "m",
    "n", "o", "p", "q", "r", "s", "t", "u", "v", "w", "x", "y", "z">>

UpperCaseLetters ==
  <<"A", "B", "C", "D", "E", "F", "G", "H", "I", "J", "K", "L", "M",
    "N", "O", "P", "Q", "R", "S", "T", "U", "V", "W", "X", "Y", "Z">>

\* the lower-case letter of each upper-case letter
LowerOf ==
  [ch \in {UpperCaseLetters[k] : k \in 1..26} |->
     LowerCaseLetters[CHOOSE k \in 1..26 : UpperCaseLetters[k] = ch]]

\* String.prototype.toLowerCase
toLowerCase(str) ==
  [i \in 1..Len(str) |-> IF str[i] \in DOMAIN LowerOf THEN LowerOf[str[i]] ELSE str[i]]

\* String.prototype.trim
RECURSIVE trim(_)
trim(str) ==
  IF str = <<>> THEN str
  ELSE IF Head(str) = " " THEN trim(Tail(str))
  ELSE IF str[Len(str)] = " " THEN trim(SubSeq(str, 1, Len(str) - 1))
  ELSE str

\* str.startsWith(prefix)
StartsWith(str, prefix) ==
  /\ Len(prefix) <= Len(str)
  /\ SubSeq(str, 1, Len(prefix)) = prefix

\* t.endsWith(s)
IsSuffix(s, t) ==
  /\ Len(s) <= Len(t)
  /\ \A i \in 1..Len(s) : s[i] = t[Len(t) - Len(s) + i]

\* the separators of /[,\s;]+/
IsSeparator(ch) == ch \in {",", " ", ";"}

\* str.split(/[,\s;]+/): the pieces between runs of separators, the empty
\* piece before a leading and after a trailing run included
RECURSIVE SplitAt(_, _, _, _)
SplitAt(str, i, cur, acc) ==
  IF i > Len(str) THEN Append(acc, cur)
  ELSE IF IsSeparator(str[i]) THEN
    IF i < Len(str) /\ IsSeparator(str[i + 1])
    THEN SplitAt(str, i + 1, cur, acc)
    ELSE SplitAt(str, i + 1, <<>>, Append(acc, cur))
  ELSE SplitAt(str, i + 1, Append(cur, str[i]), acc)

\* str.lastIndexOf(ch), 1-based; 0 for -1
LastIndexOf(str, ch) ==
  IF \E i \in 1..Len(str) : str[i] = ch
  THEN CHOOSE i \in 1..Len(str) :
         str[i] = ch /\ \A k \in (i + 1)..Len(str) : str[k] # ch
  ELSE 0

\* local.split("+")[0]
BeforePlus(local) ==
  IF \E i \in 1..Len(local) : local[i] = "+"
  THEN SubSeq(local, 1,
              (CHOOSE i \in 1..Len(local) :
                 local[i] = "+" /\ \A k \in 1..(i - 1) : local[k] # "+") - 1)
  ELSE local

\* local.replace(/\./g, "")
RECURSIVE WithoutDots(_)
WithoutDots(local) ==
  IF local = <<>> THEN <<>>
  ELSE IF Head(local) = "." THEN WithoutDots(Tail(local))
  ELSE <<Head(local)>> \o WithoutDots(Tail(local))

Mailto == <<"m", "a", "i", "l", "t", "o", ":">>

GmailCom == <<"g", "m", "a", "i", "l", ".", "c", "o", "m">>

GooglemailCom == <<"g", "o", "o", "g", "l", "e", "m", "a", "i", "l", ".", "c", "o", "m">>

DirtlegalCom == <<"d", "i", "r", "t", "l", "e", "g", "a", "l", ".", "c", "o", "m">>

\* normalizeEmailForCompare_ (01_Utils.js, lines 186-202)
normalizeEmailForCompare_(v) ==
  LET lowered == toLowerCase(trim(v)) IN
  IF lowered = <<>> THEN <<>>
  ELSE
    LET noScheme == IF StartsWith(lowered, Mailto)
                    THEN SubSeq(lowered, Len(Mailto) + 1, Len(lowered)) ELSE lowered
        email == trim(SplitAt(noScheme, 1, <<>>, <<>>)[1])
        at    == LastIndexOf(email, "@")
    IN IF at = 0 THEN email
       ELSE
         LET domain == SubSeq(email, at + 1, Len(email))
             local  == BeforePlus(SubSeq(email, 1, at - 1))
         IN (IF domain = GmailCom \/ domain = GooglemailCom
             THEN WithoutDots(local) ELSE local) \o <<"@">> \o domain

\* The non-empty pieces of a lower-cased cell of the Banned_Emails tab.
EntriesOf(cell) ==
  LET pieces == SplitAt(toLowerCase(trim(cell)), 1, <<>>, <<>>)
  IN {trim(pieces[i]) : i \in 1..Len(pieces)} \ {<<>>}

\* loadBannedList_ on the cells of column A of the Banned_Emails tab (lines
\* 36-66); no cells when the tab is absent or holds a header only.
BannedListOf(values) ==
  LET \* if (entry.startsWith("*@")) entry = entry.substring(1)
      entries == {IF StartsWith(e, <<"*", "@">>) THEN Tail(e) ELSE e :
                    e \in UNION {EntriesOf(cell) : cell \in values}}
      isDomain(e) == StartsWith(e, <<"@">>) \/ LastIndexOf(e, "@") = 0
  IN [exact   |-> {normalizeEmailForCompare_(e) : e \in {x \in entries : ~isDomain(x)}},
      domains |-> {IF StartsWith(e, <<"@">>) THEN Tail(e) ELSE e :
                     e \in {x \in entries : isDomain(x)}} \cup {DirtlegalCom}]

\* loadBannedList_ when the Banned_Emails tab is absent or holds a header only.
loadBannedList_ == BannedListOf({})

\* The test that takes any domain ending with d for banned.
isBannedEmail_AnySuffix(emailRaw, banned) ==
  LET email == normalizeEmailForCompare_(emailRaw)
      at    == LastIndexOf(email, "@")
  IN /\ email # <<>>
     /\ \/ email \in banned.exact
        \/ /\ at # 0
           /\ \E d \in banned.domains : IsSuffix(d, SubSeq(email, at + 1, Len(email)))

\* isBannedEmail_: exact match of the normalized address, or the domain equals
\* a banned domain d or ends with "." + d.
isBannedEmail_(emailRaw, banned) ==
  LET email == normalizeEmailForCompare_(emailRaw)
      at    == LastIndexOf(email, "@")
  IN /\ email # <<>>
     /\ \/ email \in banned.exact
        \/ /\ at # 0
           /\ \E d \in banned.domains :
                LET domain == SubSeq(email, at + 1, Len(email))
                IN domain = d \/ IsSuffix(<<".">> \o d, domain)

\* ---------------------------------------------------------------- products

\* The product names of the model, and for each the keywords of the code
\* (BANNED_PRODUCT_KEYWORDS and the renewal groups, lower-cased) that occur
\* in its lower-cased, punctuation-stripped text.
KeywordsIn(productName) ==
  CASE productName = "Tusk Skid Plate XL" -> {"tusk", "skid plate"}
    [] productName = "MT LLC Renewal"     -> {"mt", "llc", "renew"}
    [] OTHER                              -> {}

BANNED_PRODUCT_KEYWORDS == {"tusk", "skid plate", "winch", "oem", "zeta"}

isBannedProduct_(productName) ==
  /\ productName # ""
  /\ KeywordsIn(productName) \cap BANNED_PRODUCT_KEYWORDS # {}

\* year = 0 stands for a row none of whose date cells parses (orderDate null).
shouldExcludeSquarespaceOrder_(year, productName) ==
  /\ year # 0
  /\ year = RENEWAL_YEAR
  /\ \A group \in {{"montana", "mt"}, {"llc"}, {"renew"}} :
        group \cap KeywordsIn(productName) # {}

\* ----------------------------------------------------------- pricing repair

RECURSIVE SumSeq(_)
SumSeq(s) == IF s = <<>> THEN 0 ELSE s[1] + SumSeq(Tail(s))

\* Math.max(1, Number(r.quantity) || 1)
QtyFloor(quantity) == Max(1, IF quantity = 0 THEN 1 ELSE quantity)

\* The repair giving the whole order net to the line that comes first.
fixSquarespaceLinePricing_FirstLineTakesAll(rows) ==
  IF rows = <<>> \/ rows[1].orderNet <= 0 THEN rows
  ELSE [i \in 1..Len(rows) |->
          LET share == IF i = 1 THEN Num(rows[1].orderNet) ELSE Num(0)
          IN [rows[i] EXCEPT !.lineRevenue = share,
                             !.unitPrice = RDiv(share, Num(QtyFloor(rows[i].quantity)))]]

\* The repair giving every line of an unpriced group the same share.
fixSquarespaceLinePricing_EqualShares(rows) ==
  IF rows = <<>> \/ rows[1].orderNet <= 0 THEN rows
  ELSE [i \in 1..Len(rows) |->
          LET share == Frac(rows[1].orderNet, Len(rows))
          IN [rows[i] EXCEPT !.lineRevenue = share,
                             !.unitPrice = RDiv(share, Num(QtyFloor(rows[i].quantity)))]]

\* fixSquarespaceLinePricing_(rows): the rows after the in-place repair.
\* Each row is [platform, orderId, quantity, unitPrice, lineRevenue, orderNet]
\* with unitPrice and lineRevenue rationals.
fixSquarespaceLinePricing_(rows) ==
  IF rows = <<>> THEN rows
  ELSE IF rows[1].platform # "Squarespace" THEN rows
  ELSE
    LET hasAnyLineRevenue ==
          \E i \in 1..Len(rows) : RPos(rows[i].lineRevenue) \/ RPos(rows[i].unitPrice)
        orderNet == rows[1].orderNet
        qtySum   == SumSeq([i \in 1..Len(rows) |-> QtyFloor(rows[i].quantity)])
    IN
    IF orderNet <= 0 THEN rows
    ELSE IF hasAnyLineRevenue THEN
      [i \in 1..Len(rows) |->
         LET row == rows[i]
             qty == QtyFloor(row.quantity)
             up  == row.unitPrice
             lr  == row.lineRevenue
             lr2 == IF ~RPos(lr) /\ RPos(up) THEN RMul(up, Num(qty)) ELSE lr
             \* the second test reads the lineRevenue the code captured in lr
             \* before the first assignment
             up2 == IF ~RPos(up) /\ RPos(lr) THEN RDiv(lr, Num(qty)) ELSE up
         IN [row EXCEPT !.lineRevenue = lr2, !.unitPrice = up2]]
    ELSE
      [i \in 1..Len(rows) |->
         LET row   == rows[i]
             qty   == QtyFloor(row.quantity)
             share == RMul(Num(orderNet), Frac(qty, qtySum))
         IN [row EXCEPT !.lineRevenue = share, !.unitPrice = RDiv(share, Num(qty))]]

\* --------------------------------------------------------------- raw sheets

\* A raw sheet: whether the tab exists, its header row ("ok": every column
\* the build reads; "nocol": a required column is missing; "nodate": every
\* accepted date column is missing) and its data rows (sheet rows 2, 3, ...).
\*
\* A Shopify data row: blank (every cell empty), test ("Test Order"), email
\* ("Customer Email"), orderId, dates (the cells of the accepted date
\* columns), product ("Lineitem Name"), qty, price, and the
\* order-level cells totalPrice, totalDiscounts, currentTotalPrice,
\* totalRefunds, which repeat on every line of an order.
\*
\* A Squarespace data row: blank, test ("Test Mode"), email, orderId, dates,
\* product ("LineItem Product Name"), qty, unitPriceValue (a cell) and the
\* order-level cells discountValue, refundedValue, grandTotalValue.

\* pat+x@ex.com
OkEmail == <<"p", "a", "t", "+", "x", "@", "e", "x", ".", "c", "o", "m">>

\* b@m.dirtlegal.com
BannedEmail == <<"b", "@", "m", ".">> \o DirtlegalCom

ShopifyLine(orderId, qty, price) ==
  [blank |-> FALSE, test |-> FALSE, email |-> OkEmail, orderId |-> orderId,
   dates |-> ShopifyDates(DateObject(2025), BlankDate, BlankDate, BlankDate, BlankDate),
   product |-> "Widget", qty |-> Cell(qty), price |-> Cell(price),
   totalPrice        |-> IF orderId = "A" THEN Cell(100) ELSE Cell(50),
   totalDiscounts    |-> IF orderId = "A" THEN Cell(10) ELSE Cell(0),
   currentTotalPrice |-> IF orderId = "A" THEN Cell(90) ELSE BlankCell,
   totalRefunds      |-> IF orderId = "A" THEN BlankCell ELSE Cell(5)]

ShopifyBlankRow ==
  [blank |-> TRUE, test |-> FALSE, email |-> NoEmail, orderId |-> "",
   dates |-> ShopifyDates(BlankDate, BlankDate, BlankDate, BlankDate, BlankDate),
   product |-> "", qty |-> BlankCell, price |-> BlankCell,
   totalPrice |-> BlankCell, totalDiscounts |-> BlankCell,
   currentTotalPrice |-> BlankCell, totalRefunds |-> BlankCell]

ShopifyLineRows == {ShopifyLine("A", 2, 5), ShopifyLine("B", 1, 3)}

ShopifySkipRows ==
  { ShopifyBlankRow,
    [ShopifyLine("A", 1, 5) EXCEPT !.test = TRUE],
    [ShopifyLine("A", 1, 5) EXCEPT !.email = BannedEmail],
    [ShopifyLine("A", 1, 5) EXCEPT !.product = ""],
    [ShopifyLine("A", 1, 5) EXCEPT !.product = "Tusk Skid Plate XL"] }

SquarespaceLine(orderId, qty, unitPriceValue) ==
  [blank |-> FALSE, test |-> FALSE, email |-> OkEmail, orderId |-> orderId,
   dates |-> SquarespaceDates(DateObject(2026), BlankDate),
   product |-> "Widget", qty |-> Cell(qty),
   unitPriceValue  |-> unitPriceValue,
   discountValue   |-> IF orderId = "X" THEN Cell(2) ELSE Cell(0),
   refundedValue   |-> IF orderId = "X" THEN Cell(0) ELSE Cell(4),
   grandTotalValue |-> IF orderId = "X" THEN Cell(40) ELSE Cell(10)]

SquarespaceBlankRow ==
  [blank |-> TRUE, test |-> FALSE, email |-> NoEmail, orderId |-> "",
   dates |-> SquarespaceDates(BlankDate, BlankDate), product |-> "", qty |-> BlankCell,
   unitPriceValue |-> BlankCell,
   discountValue |-> BlankCell, refundedValue |-> BlankCell,
   grandTotalValue |-> BlankCell]

SquarespaceLineRows ==
  { SquarespaceLine("X", 1, BlankCell),
    SquarespaceLine("X", 3, BlankCell),
    [SquarespaceLine("X", 1, BlankCell) EXCEPT !.product = "MT LLC Renewal"],
    SquarespaceLine("Y", 2, Cell(3)) }

SquarespaceSkipRows ==
  { SquarespaceBlankRow,
    [SquarespaceLine("X", 1, BlankCell) EXCEPT !.test = TRUE],
    [SquarespaceLine("X", 1, BlankCell) EXCEPT !.email = BannedEmail],
    [SquarespaceLine("X", 1, BlankCell) EXCEPT !.orderId = ""],
    [SquarespaceLine("X", 1, BlankCell) EXCEPT !.product = ""],
    [SquarespaceLine("X", 1, BlankCell) EXCEPT !.product = "Tusk Skid Plate XL"] }

HeaderKinds == {"ok", "nocol", "nodate"}

\* Sequences of length n over lines \cup skips with exactly k rows of skips.
RECURSIVE RowSeqs(_, _, _, _)
RowSeqs(lines, skips, n, k) ==
  IF k > n \/ k < 0 THEN {}
  ELSE IF n = 0 THEN {<<>>}
  ELSE {Append(s, x) : s \in RowSeqs(lines, skips, n - 1, k), x \in lines}
       \cup {Append(s, x) : s \in RowSeqs(lines, skips, n - 1, k - 1), x \in skips}

\* The data rows a sheet can hold: the last one is not blank (getLastRow is
\* the last row with content).
SheetRows(lines, skips, n, k) ==
  {s \in RowSeqs(lines, skips, n, k) : n > 0 => ~s[n].blank}

\* sheet.getLastRow(): the header row plus the data rows.
LastRow(sheet) == 1 + Len(sheet.rows)

\* sheet.getRange(r, 1, take, lastCol).getValues()
GetValues(sheet, r, take) ==
  [i \in 1..take |-> sheet.rows[r - FIRST_DATA_ROW + i]]

\* ------------------------------------------------------- the output sheet

\* A canonical line of All_Orders_Clean.  Of the twenty columns the model
\* keeps platform, order_id, order_date (its year), product_name, quantity,
\* unit_price, line_revenue, order_discount_total, order_refund_total and
\* order_net_revenue; the others are copied through from the raw row.  src is
\* not a column: it is the sheet row of the raw line the canonical line was
\* made from.
BlankLine ==
  [platform |-> "", orderId |-> "", year |-> 0, product |-> "", qty |-> 0,
   unitPrice |-> Num(0), lineRevenue |-> Num(0),
   discount |-> 0, refund |-> 0, net |-> 0, src |-> 0]

\* The write that puts every buffer at the top of the body.
SetValues_AtTop(body, outRow, buffer) ==
  [i \in 1..Max(Len(body), Len(buffer)) |->
     IF i <= Len(buffer) THEN buffer[i] ELSE body[i]]

\* outSheet.getRange(outRow, 1, buffer.length, n).setValues(buffer) on the body
\* (rows 2..lastRow) of the output sheet: rows outRow.. are overwritten, rows
\* between the old last row and outRow stay blank.
SetValues(body, outRow, buffer) ==
  LET first == outRow - FIRST_DATA_ROW + 1
      last  == first + Len(buffer) - 1
  IN [i \in 1..Max(Len(body), last) |->
        IF i >= first /\ i <= last THEN buffer[i - first + 1]
        ELSE IF i <= Len(body) THEN body[i]
        ELSE BlankLine]

\* ------------------------------------------------------------- build state

\* PROPS.getProperty(STATE_KEY) === null
NoState == [started |-> FALSE]

\* state.lastOrderKey === ""
NoOrderKey == <<>>

\* the state a fresh start creates
InitialState ==
  [started |-> TRUE, phase |-> "shopify", rowCursor |-> FIRST_DATA_ROW,
   outRow |-> FIRST_DATA_ROW, excluded |-> 0, written |-> 0,
   lastOrderKey |-> NoOrderKey]

\* curOrderMeta = null
NoMeta == [orderId |-> ""]

\* The locals of a scan: r, and for processSquarespace_ the write buffer, the
\* current order group and the set of excluded order ids.
NoScan ==
  [r |-> 0, buffer |-> <<>>, curOrderId |-> "", curOrderLines |-> <<>>,
   curOrderMeta |-> NoMeta, excludedOrderIds |-> {}]

\* History of the current build (not program state): data rows read per
\* phase; the raw rows kept as lines so far, as <<platform, row>>, and the
\* raw rows the excluded counter was raised for; what made
\* the build flush a non-empty order group; where it paused in the
\* Squarespace phase ("boundary": before any Squarespace row was scanned,
\* "scan": later).
NoHist ==
  [scanned |-> [shopify |-> 0, squarespace |-> 0], kept |-> {}, dropped |-> {},
   flushedBy |-> {}, pauses |-> {}]

\* ---------------------------------------------------------- processShopify_

\* The optional order-level columns of the Shopify sheet: c[k] stands for
\* c.k >= 0, the header row has the column.
ShopifyTotalColumns == {"totalPrice", "totalDiscounts", "currentTotalPrice", "totalRefunds"}

\* row[c.k]: the cell of column k, undefined (blank) when the column is absent
CellOf(c, row, k) == IF c[k] THEN row[k] ELSE BlankCell

\* The totals whose net falls back to | |gross| - |discount| |.
ShopifyTotalsOf_GrossLessDiscount(c, row) ==
  LET grossTotal    == Abs(parseMoney_(CellOf(c, row, "totalPrice")))
      discountTotal == Abs(parseMoney_(CellOf(c, row, "totalDiscounts")))
      currentTotal  == parseMoney_(CellOf(c, row, "currentTotalPrice"))
      netRevenue    == IF currentTotal # 0 \/ s_nonEmpty(CellOf(c, row, "currentTotalPrice"))
                       THEN Abs(currentTotal) ELSE Abs(grossTotal - discountTotal)
      refundTotal   == IF s_nonEmpty(CellOf(c, row, "totalRefunds"))
                       THEN Abs(parseMoney_(CellOf(c, row, "totalRefunds")))
                       ELSE Max(0, grossTotal - netRevenue)
  IN [discount |-> discountTotal, refund |-> refundTotal, net |-> netRevenue]

\* lines 355-365: the order-level totals of a Shopify row, c telling which of
\* the optional columns exist
ShopifyTotalsOf(c, row) ==
  LET grossTotal    == IF c.totalPrice THEN Abs(parseMoney_(row.totalPrice)) ELSE 0
      discountTotal == IF c.totalDiscounts THEN Abs(parseMoney_(row.totalDiscounts)) ELSE 0
      currentTotal  == IF c.currentTotalPrice THEN parseMoney_(row.currentTotalPrice) ELSE 0
      netRevenue    == IF currentTotal # 0 \/ s_nonEmpty(CellOf(c, row, "currentTotalPrice"))
                       THEN Abs(currentTotal) ELSE grossTotal
      refundTotal   == IF c.totalRefunds /\ s_nonEmpty(row.totalRefunds)
                       THEN Abs(parseMoney_(row.totalRefunds))
                       ELSE Max(0, grossTotal - netRevenue)
  IN [discount |-> discountTotal, refund |-> refundTotal, net |-> netRevenue]

\* the totals on a sheet that has every optional column
ShopifyTotals(row) == ShopifyTotalsOf([k \in ShopifyTotalColumns |-> TRUE], row)

\* One row of the chunk loop.  acc is [state, buffer, kept, dropped].
ShopifyRow(acc, row, rowNum) ==
  LET st == acc.state
      excludedOne == [acc EXCEPT !.state.excluded = st.excluded + 1,
                                 !.dropped = acc.dropped \cup {<<"Shopify", rowNum>>}]
  IN
  IF row.blank THEN acc
  ELSE IF row.test THEN excludedOne
  ELSE IF row.email # NoEmail /\ isBannedEmail_(row.email, loadBannedList_) THEN excludedOne
  ELSE IF row.product = "" THEN acc
  ELSE IF isBannedProduct_(row.product) THEN excludedOne
  ELSE
    LET qty           == parseQty_(row.qty)
        unitPrice     == parseMoney_(row.price)
        lineRevenue   == qty * unitPrice
        orderKey      == <<"Shopify", row.orderId>>
        writeTotals   == orderKey # st.lastOrderKey
        totals        == ShopifyTotals(row)
        line == [platform |-> "Shopify", orderId |-> row.orderId,
                 year |-> ShopifyOrderDate(row),
                 product |-> row.product, qty |-> qty,
                 unitPrice |-> Num(unitPrice), lineRevenue |-> Num(lineRevenue),
                 discount |-> IF writeTotals THEN totals.discount ELSE 0,
                 refund   |-> IF writeTotals THEN totals.refund ELSE 0,
                 net      |-> IF writeTotals THEN totals.net ELSE 0,
                 src |-> rowNum]
    IN [state  |-> IF writeTotals THEN [st EXCEPT !.lastOrderKey = orderKey] ELSE st,
        buffer |-> Append(acc.buffer, line),
        kept   |-> acc.kept \cup {<<"Shopify", rowNum>>},
        dropped |-> acc.dropped]

RECURSIVE ShopifyRows(_, _, _, _)
ShopifyRows(acc, values, i, r) ==
  IF i > Len(values) THEN acc
  ELSE ShopifyRows(ShopifyRow(acc, values[i], r + i - 1), values, i + 1, r)

\* ------------------------------------------------------ processSquarespace_

\* acc is [state, buffer, curOrderId, curOrderLines, curOrderMeta,
\* excludedOrderIds, kept, dropped, flushedBy].

ResetGroup(acc) ==
  [acc EXCEPT !.curOrderId = "", !.curOrderLines = <<>>, !.curOrderMeta = NoMeta]

GroupSrc(acc) ==
  {<<"Squarespace", acc.curOrderMeta.srcRows[j]>> : j \in 1..Len(acc.curOrderLines)}

\* The drop that discards the collected lines without counting them.
dropCurrentOrderAsExcluded_NotCounted(acc) ==
  ResetGroup([acc EXCEPT
    !.kept = acc.kept \ GroupSrc(acc),
    !.dropped = acc.dropped \cup GroupSrc(acc)])

dropCurrentOrderAsExcluded_(acc) ==
  ResetGroup([acc EXCEPT
    !.state.excluded = acc.state.excluded + Len(acc.curOrderLines),
    !.kept = acc.kept \ GroupSrc(acc),
    !.dropped = acc.dropped \cup GroupSrc(acc)])

\* cause is history only: which call site flushes.
flushCurrentOrder_(acc, cause) ==
  IF acc.curOrderId = "" \/ acc.curOrderLines = <<>> \/ acc.curOrderMeta = NoMeta
  THEN acc
  ELSE IF acc.curOrderId \in acc.excludedOrderIds THEN
    ResetGroup([acc EXCEPT
      !.state.excluded = acc.state.excluded + Len(acc.curOrderLines),
      !.kept = acc.kept \ GroupSrc(acc),
      !.dropped = acc.dropped \cup GroupSrc(acc)])
  ELSE
    LET meta == acc.curOrderMeta
        \* the rows pushed for the repaired lines, the totals on the first
        Pushed(fixed) ==
          [j \in 1..Len(fixed) |->
             [platform |-> "Squarespace", orderId |-> meta.orderId,
              year |-> meta.orderDate, product |-> meta.productNames[j],
              qty |-> fixed[j].quantity,
              unitPrice |-> fixed[j].unitPrice,
              lineRevenue |-> fixed[j].lineRevenue,
              discount |-> IF j = 1 THEN meta.discountTotal ELSE 0,
              refund   |-> IF j = 1 THEN meta.refundTotal ELSE 0,
              net      |-> IF j = 1 THEN meta.netRevenue ELSE 0,
              src |-> meta.srcRows[j]]]
    IN ResetGroup([acc EXCEPT
         !.buffer = acc.buffer \o Pushed(fixSquarespaceLinePricing_(acc.curOrderLines)),
         !.flushedBy = acc.flushedBy \cup {cause}])

\* lines 633-636: the order-level totals of a Squarespace row
SquarespaceTotals(row) ==
  LET discountTotal == Abs(parseMoney_(row.discountValue))
      refundTotal   == Abs(parseMoney_(row.refundedValue))
      grandTotal    == Abs(parseMoney_(row.grandTotalValue))
      netRevenue    == Max(0, grandTotal - refundTotal)
  IN [discount |-> discountTotal, refund |-> refundTotal, net |-> netRevenue]

\* One row of the chunk loop.
SquarespaceRow(acc, row, rowNum) ==
  LET excludedOne == [acc EXCEPT !.state.excluded = acc.state.excluded + 1,
                                 !.dropped = acc.dropped \cup {<<"Squarespace", rowNum>>}]
  IN
  IF row.blank THEN acc
  ELSE IF row.test THEN excludedOne
  ELSE IF row.email # NoEmail /\ isBannedEmail_(row.email, loadBannedList_) THEN excludedOne
  ELSE IF row.orderId = "" THEN acc
  ELSE IF row.orderId \in acc.excludedOrderIds THEN excludedOne
  ELSE IF row.product = "" THEN acc
  ELSE IF isBannedProduct_(row.product) THEN excludedOne
  ELSE IF shouldExcludeSquarespaceOrder_(SquarespaceOrderDate(row), row.product) THEN
    LET \* excludedOrderIds.add(orderId)
        marked == [acc EXCEPT !.excludedOrderIds = acc.excludedOrderIds \cup {row.orderId}]
        \* the open group is dropped when it is this order's
        Drop(m) == IF m.curOrderId # "" /\ m.curOrderId = row.orderId
                   THEN dropCurrentOrderAsExcluded_(m) ELSE m
        \* state.excluded++
        Count(m) == [m EXCEPT !.state.excluded = m.state.excluded + 1,
                              !.dropped = m.dropped \cup {<<"Squarespace", rowNum>>}]
    IN Count(Drop(marked))
  ELSE
    LET qty           == parseQty_(row.qty)
        unitPrice     == IF s_nonEmpty(row.unitPriceValue)
                         THEN parseMoney_(row.unitPriceValue) ELSE 0
        lineRevenue   == qty * unitPrice
        totals        == SquarespaceTotals(row)
        \* lines 642-645: the order changes
        flushed == IF acc.curOrderId # "" /\ row.orderId # acc.curOrderId
                   THEN flushCurrentOrder_(acc, "orderChange") ELSE acc
        \* lines 648-663: a new group starts when none is open
        Started(f) ==
          IF f.curOrderId = ""
          THEN [f EXCEPT
                 !.curOrderId = row.orderId,
                 !.curOrderMeta =
                    [orderId |-> row.orderId, orderDate |-> SquarespaceOrderDate(row),
                     discountTotal |-> totals.discount,
                     refundTotal |-> totals.refund,
                     netRevenue |-> totals.net,
                     productNames |-> <<>>, srcRows |-> <<>>]]
          ELSE f
        \* lines 666-676: the line joins the group
        Pushed(g) ==
          [g EXCEPT
            !.curOrderMeta.productNames = Append(g.curOrderMeta.productNames, row.product),
            !.curOrderMeta.srcRows = Append(g.curOrderMeta.srcRows, rowNum),
            !.curOrderLines = Append(g.curOrderLines,
               [platform |-> "Squarespace", orderId |-> row.orderId, quantity |-> qty,
                unitPrice |-> Num(unitPrice), lineRevenue |-> Num(lineRevenue),
                orderNet |-> totals.net]),
            !.kept = g.kept \cup {<<"Squarespace", rowNum>>}]
    IN Pushed(Started(flushed))

RECURSIVE SquarespaceRows(_, _, _, _)
SquarespaceRows(acc, values, i, r) ==
  IF i > Len(values) THEN acc
  ELSE SquarespaceRows(SquarespaceRow(acc, values[i], r + i - 1), values, i + 1, r)

\* --------------------------------------------------- buildAllOrdersClean

\* What an invocation returned: "paused" (saveState_'s message), "complete"
\* (finish_'s message, with the counts it reports), "threw", "reset"
\* (resetCleanMasterBuildState), "running" while an invocation is under way.
Result(kind, written, excluded) ==
  [kind |-> kind, written |-> written, excluded |-> excluded]

\* The machine: the program counter of the one invocation that holds the
\* script lock, its in-memory state and scan locals, the persisted property,
\* the output sheet body, and the history.  The steps below are functions of
\* the machine and the two raw sheets.

\* return / throw through the finally block: the lock is released and the
\* invocation's locals are gone.
Leave(M, res) ==
  [M EXCEPT !.pc = "idle", !.lock = FALSE, !.state = NoState, !.scan = NoScan,
            !.result = res, !.BANNED_LIST_CACHE_ = "null", !.inside = M.inside - 1]

\* Mutant of Throw: the error leaves the function past the finally block.
Throw_KeepsLock(M) ==
  [M EXCEPT !.pc = "idle", !.state = NoState, !.scan = NoScan,
            !.result = Result("threw", 0, 0), !.BANNED_LIST_CACHE_ = "null"]

\* lines 194, 285-296, 441-450: an error thrown inside the try block
Throw(M) == Leave(M, Result("threw", 0, 0))

\* Mutant of tryLock: the lock is granted while another invocation holds it.
tryLock_Granted(held) == TRUE

\* lock.tryLock(20000) of the script lock: granted when no invocation holds
\* it (a holder returns within the wait or the wait runs out).
tryLock(held) == ~held

\* lines 180-190: the lock is granted and the try block entered
LockStep(M) ==
  [M EXCEPT !.pc = "start", !.lock = TRUE, !.result = Result("running", 0, 0),
            !.inside = M.inside + 1]

\* Mutant of LockTimeoutStep: the fresh start runs before the lock is tested.
LockTimeoutStep_StartsFresh(M) ==
  [M EXCEPT !.PROPS = InitialState, !.outSheet = <<>>]

\* lines 180-183: tryLock fails and the call throws the retry error, before
\* the try block and before any other statement.
LockTimeoutStep(M) == M

\* Mutant of Dispatch: processShopify_ is called whatever the phase is.
Dispatch_AlwaysShopify(phase) == "processShopify"

\* lines 710-717: which scan the dispatch enters for a phase
Dispatch(phase) ==
  CASE phase = "shopify"     -> "processShopify"
    [] phase = "squarespace" -> "processSquarespace"
    [] OTHER                 -> "finish"

\* lines 714-719, after processShopify_ returned null
AfterShopify(phase) ==
  IF phase = "squarespace" THEN "processSquarespace" ELSE "finish"

\* Mutant of StartStep: the fresh start leaves the old body rows in place.
StartStep_KeepsBody(M, shop, sq) ==
  IF ~shop.exists \/ ~sq.exists THEN Throw(M)
  ELSE IF ~M.PROPS.started THEN
    [M EXCEPT !.state = InitialState, !.PROPS = InitialState,
              !.hist = NoHist, !.pc = Dispatch(InitialState.phase),
              !.BANNED_LIST_CACHE_ = "loaded"]
  ELSE [M EXCEPT !.state = M.PROPS, !.pc = Dispatch(M.PROPS.phase),
                 !.BANNED_LIST_CACHE_ = "loaded"]

\* lines 190-221: the sheets, the persisted state, the fresh start
StartStep(M, shop, sq) ==
  IF ~shop.exists \/ ~sq.exists THEN Throw(M)
  ELSE IF ~M.PROPS.started THEN
    [M EXCEPT !.outSheet = <<>>, !.state = InitialState, !.PROPS = InitialState,
              !.hist = NoHist, !.pc = Dispatch(InitialState.phase),
              !.BANNED_LIST_CACHE_ = "loaded"]
  ELSE [M EXCEPT !.state = M.PROPS, !.pc = Dispatch(M.PROPS.phase),
                 !.BANNED_LIST_CACHE_ = "loaded"]

\* lines 252-298: processShopify_ up to its loop
EnterShopify(M, shop) ==
  IF LastRow(shop) < FIRST_DATA_ROW THEN [M EXCEPT !.pc = AfterShopify(M.state.phase)]
  ELSE IF shop.header # "ok" THEN Throw(M)
  ELSE [M EXCEPT !.scan = [NoScan EXCEPT !.r = M.state.rowCursor],
                 !.pc = "shopifyLoop"]

\* Mutant of ShopifyPauseStep: the pause persists the state without
\* lastOrderKey.
ShopifyPauseStep_ForgetsOrderKey(M) ==
  Leave([M EXCEPT !.PROPS = [M.state EXCEPT !.lastOrderKey = NoOrderKey]],
        Result("paused", M.state.written, M.state.excluded))

\* line 300: the time limit fired at the top of a chunk
ShopifyPauseStep(M) ==
  Leave([M EXCEPT !.PROPS = M.state],
        Result("paused", M.state.written, M.state.excluded))

\* lines 302-399: one chunk
ShopifyChunkStep(M, shop) ==
  LET r      == M.scan.r
      take   == Min(CHUNK_ROWS, LastRow(shop) - r + 1)
      values == GetValues(shop, r, take)
      scanned == ShopifyRows([state |-> M.state, buffer |-> <<>>, kept |-> M.hist.kept,
                              dropped |-> M.hist.dropped],
                             values, 1, r)
      \* lines 391-399: the buffer is written and the state persisted
      Stored(acc) ==
        LET n  == Len(acc.buffer)
            st == [acc.state EXCEPT !.outRow = acc.state.outRow + n,
                                    !.written = acc.state.written + n,
                                    !.rowCursor = r + take]
        IN [M EXCEPT
              !.outSheet = IF n > 0 THEN SetValues(M.outSheet, acc.state.outRow, acc.buffer)
                           ELSE M.outSheet,
              !.state = st,
              !.PROPS = st,
              !.scan.r = r + take,
              !.hist.kept = acc.kept,
              !.hist.dropped = acc.dropped,
              !.hist.scanned.shopify = M.hist.scanned.shopify + take]
  IN Stored(scanned)

\* lines 402-406: the end of the Shopify sheet
ShopifyEndStep(M) ==
  LET st == [M.state EXCEPT !.phase = "squarespace", !.rowCursor = FIRST_DATA_ROW,
                            !.lastOrderKey = NoOrderKey]
  IN [M EXCEPT !.state = st, !.PROPS = st, !.scan = NoScan,
               !.pc = AfterShopify(st.phase)]

\* lines 410-463: processSquarespace_ up to its loop
EnterSquarespace(M, sq) ==
  IF LastRow(sq) < FIRST_DATA_ROW THEN [M EXCEPT !.pc = "finish"]
  ELSE IF sq.header # "ok" THEN Throw(M)
  ELSE [M EXCEPT !.scan = [NoScan EXCEPT !.r = M.state.rowCursor],
                 !.pc = "squarespaceLoop"]

\* the scan's locals and the history as the accumulator of the row operators
SqAcc(M) ==
  [state |-> M.state, buffer |-> M.scan.buffer, curOrderId |-> M.scan.curOrderId,
   curOrderLines |-> M.scan.curOrderLines, curOrderMeta |-> M.scan.curOrderMeta,
   excludedOrderIds |-> M.scan.excludedOrderIds,
   kept |-> M.hist.kept, dropped |-> M.hist.dropped, flushedBy |-> M.hist.flushedBy]

\* the machine with the accumulator stored back, the buffer written when
\* write is set: outSheet.getRange(state.outRow, ...).setValues(buffer);
\* state.outRow += buffer.length; state.written += buffer.length
SqStore(M, acc, r, write) ==
  LET n  == IF write THEN Len(acc.buffer) ELSE 0
      st == [acc.state EXCEPT !.outRow = acc.state.outRow + n,
                              !.written = acc.state.written + n,
                              !.rowCursor = r]
  IN [M EXCEPT
        !.outSheet = IF n > 0 THEN SetValues(M.outSheet, acc.state.outRow, acc.buffer)
                     ELSE M.outSheet,
        !.state = st,
        !.scan = [r |-> r, buffer |-> acc.buffer, curOrderId |-> acc.curOrderId,
                  curOrderLines |-> acc.curOrderLines,
                  curOrderMeta |-> acc.curOrderMeta,
                  excludedOrderIds |-> acc.excludedOrderIds],
        !.hist.kept = acc.kept,
        !.hist.dropped = acc.dropped,
        !.hist.flushedBy = acc.flushedBy]

\* history: where in the Squarespace phase a pause at cursor r falls
PausePoint(r) == IF r = FIRST_DATA_ROW THEN "boundary" ELSE "scan"

\* Mutant of SquarespacePauseStep: the pause writes the buffer and persists
\* the cursor without flushing the order group it holds.
SquarespacePauseStep_NoFlush(M) ==
  LET Saved(W) ==
        Leave([W EXCEPT !.PROPS = W.state,
                        !.hist.pauses = M.hist.pauses \cup {PausePoint(M.scan.r)}],
              Result("paused", W.state.written, W.state.excluded))
  IN Saved(SqStore(M, SqAcc(M), M.scan.r, TRUE))

\* Mutant of SquarespacePauseStep: the pause persists the first data row as
\* the cursor.
SquarespacePauseStep_RewindsCursor(M) ==
  LET acc == flushCurrentOrder_(SqAcc(M), "timeUp")
      Saved(W) ==
        Leave([W EXCEPT !.PROPS = W.state,
                        !.hist.pauses = M.hist.pauses \cup {PausePoint(M.scan.r)}],
              Result("paused", W.state.written, W.state.excluded))
  IN Saved(SqStore(M, acc, FIRST_DATA_ROW, TRUE))

\* lines 555-568: the time limit fired at the top of a chunk
SquarespacePauseStep(M) ==
  LET acc == flushCurrentOrder_(SqAcc(M), "timeUp")
      \* lines 565-567: the cursor is persisted and the paused message returned
      Saved(W) ==
        Leave([W EXCEPT !.PROPS = W.state,
                        !.hist.pauses = M.hist.pauses \cup {PausePoint(M.scan.r)}],
              Result("paused", W.state.written, W.state.excluded))
  IN Saved(SqStore(M, acc, M.scan.r, TRUE))

\* lines 570-695: one chunk, then the periodic write of the buffer
SquarespaceChunkStep(M, sq) ==
  LET r       == M.scan.r
      take    == Min(CHUNK_ROWS, LastRow(sq) - r + 1)
      values  == GetValues(sq, r, take)
      scanned == SquarespaceRows(SqAcc(M), values, 1, r)
      \* lines 683-695: the periodic write of the buffer
      Stored(sc) ==
        LET full == Len(sc.buffer) >= BUFFER_FLUSH_ROWS
            acc  == IF full THEN flushCurrentOrder_(sc, "bufferFull") ELSE sc
            Persisted(S) ==
              IF full THEN [S EXCEPT !.scan.buffer = <<>>, !.PROPS = S.state] ELSE S
            Counted(W) ==
              [W EXCEPT !.hist.scanned.squarespace = M.hist.scanned.squarespace + take]
        IN Persisted(Counted(SqStore(M, acc, r + take, full)))
  IN Stored(scanned)

\* lines 698-707: the end of the Squarespace sheet
SquarespaceEndStep(M) ==
  LET acc == flushCurrentOrder_(SqAcc(M), "exhausted")
      W   == SqStore(M, acc, M.scan.r, TRUE)
  IN [W EXCEPT !.pc = "finish"]

\* Mutant of FinishStep: finish_ does not delete the persisted state.
FinishStep_KeepsState(M) ==
  Leave(M, Result("complete", M.state.written, M.state.excluded))

\* lines 232-250 and 719-723: finish_
FinishStep(M) ==
  Leave([M EXCEPT !.PROPS = NoState],
        Result("complete", M.state.written, M.state.excluded))

\* The step an invocation takes from pc when the time limit never fires.
StepNoPause(M, shop, sq) ==
  CASE M.pc = "start"              -> StartStep(M, shop, sq)
    [] M.pc = "processShopify"     -> EnterShopify(M, shop)
    [] M.pc = "shopifyLoop"        -> IF M.scan.r <= LastRow(shop)
                                      THEN ShopifyChunkStep(M, shop)
                                      ELSE ShopifyEndStep(M)
    [] M.pc = "processSquarespace" -> EnterSquarespace(M, sq)
    [] M.pc = "squarespaceLoop"    -> IF M.scan.r <= LastRow(sq)
                                      THEN SquarespaceChunkStep(M, sq)
                                      ELSE SquarespaceEndStep(M)
    [] M.pc = "finish"             -> FinishStep(M)

RECURSIVE RunToReturn(_, _, _)
RunToReturn(M, shop, sq) ==
  IF M.pc = "idle" THEN M ELSE RunToReturn(StepNoPause(M, shop, sq), shop, sq)

\* One invocation of buildAllOrdersClean on a workbook without build state
\* and with an empty output body, the time limit never firing.
FreshMachine ==
  [pc |-> "start", lock |-> TRUE, state |-> NoState, PROPS |-> NoState,
   outSheet |-> <<>>, scan |-> NoScan, hist |-> NoHist,
   result |-> Result("running", 0, 0), BANNED_LIST_CACHE_ |-> "null", inside |-> 1]

Uninterrupted(shop, sq) == RunToReturn(FreshMachine, shop, sq)

\* ---------------------------------------------------------- the state machine

VARIABLES
  shopSheet,   \* the "Shopify Orders" tab
  sqSheet,     \* the "Squarespace Orders" tab
  PROPS,       \* the script property CLEAN_MASTER_BUILD_STATE_V2, parsed
  outSheet,    \* the body of All_Orders_Clean (rows 2..lastRow)
  lock,        \* the script lock is held
  pc,          \* where the invocation that holds the lock stands
  state,       \* its in-memory state object
  scan,        \* the locals of its scan
  result,      \* what the last invocation returned
  touched,     \* history: the invocation has changed PROPS or outSheet
  hist,        \* history of the current build
  BANNED_LIST_CACHE_,  \* the cache global of the execution: "null" or "loaded"
  inside,      \* invocations between tryLock granted and releaseLock
  lockTimeouts, \* calls that threw the retry error
  probe        \* a helper function called on its own: its arguments and result

vars == <<shopSheet, sqSheet, PROPS, outSheet, lock, pc, state, scan, result, touched,
          hist, BANNED_LIST_CACHE_, inside, lockTimeouts, probe>>

Mach ==
  [pc |-> pc, lock |-> lock, state |-> state, PROPS |-> PROPS,
   outSheet |-> outSheet, scan |-> scan, hist |-> hist, result |-> result,
   BANNED_LIST_CACHE_ |-> BANNED_LIST_CACHE_, inside |-> inside]

Stores(M) ==
  /\ pc' = M.pc
  /\ lock' = M.lock
  /\ state' = M.state
  /\ PROPS' = M.PROPS
  /\ outSheet' = M.outSheet
  /\ scan' = M.scan
  /\ hist' = M.hist
  /\ result' = M.result
  /\ BANNED_LIST_CACHE_' = M.BANNED_LIST_CACHE_
  /\ inside' = M.inside
  /\ touched' = IF pc = "idle" THEN FALSE
                ELSE (touched \/ M.PROPS # PROPS \/ M.outSheet # outSheet)
  /\ UNCHANGED <<shopSheet, sqSheet>>

Becomes(M) == Stores(M) /\ UNCHANGED <<lockTimeouts, probe>>

\* No helper is called on its own.
NoProbe == [fn |-> "none"]

Sheet(config, rows) ==
  [exists |-> config # "missing",
   header |-> IF config = "missing" THEN "ok" ELSE config,
   rows   |-> IF config = "missing" THEN <<>> ELSE rows]

SheetConfigs == HeaderKinds \cup {"missing"}

\* No build was ever started and none is running.
InitBuild ==
  /\ PROPS = NoState
  /\ outSheet = <<>>
  /\ lock = FALSE
  /\ pc = "idle"
  /\ state = NoState
  /\ scan = NoScan
  /\ result = Result("none", 0, 0)
  /\ touched = FALSE
  /\ hist = NoHist
  /\ BANNED_LIST_CACHE_ = "null"
  /\ inside = 0
  /\ lockTimeouts = 0

\* A workbook of at most maxRows data rows, the order lines among them from
\* shopLines and sqLines, maxSkip of them not order lines, at most maxFault
\* when a sheet is faulty.
WorkbookOver(shopLines, sqLines, maxRows, maxSkip, maxFault) ==
  \E a \in 0..maxRows, b \in 0..maxRows, ka \in 0..maxSkip, kb \in 0..maxSkip :
    /\ a + b <= maxRows
    /\ ka + kb <= maxSkip
    /\ LET Workbook(shopRows, sqRows) ==
             \E ra \in shopRows, rb \in sqRows, ca \in SheetConfigs, cb \in SheetConfigs :
               /\ (ca # "ok" \/ cb # "ok") => a + b <= maxFault
               /\ shopSheet = Sheet(ca, ra)
               /\ sqSheet = Sheet(cb, rb)
       IN Workbook(SheetRows(shopLines, ShopifySkipRows, a, ka),
                   SheetRows(sqLines, SquarespaceSkipRows, b, kb))

\* Such a workbook on which no build was ever started.
InitOver(shopLines, sqLines, maxRows, maxSkip, maxFault) ==
  /\ WorkbookOver(shopLines, sqLines, maxRows, maxSkip, maxFault)
  /\ InitBuild
  /\ probe = NoProbe

InitWith(maxRows, maxSkip, maxFault) ==
  InitOver(ShopifyLineRows, SquarespaceLineRows, maxRows, maxSkip, maxFault)

Init == InitWith(MaxRows, MaxSkipRows, MaxFaultRows)

\* lines 180-183: a call of buildAllOrdersClean is granted the lock
TryLock ==
  /\ tryLock(lock)
  /\ Becomes(LockStep(Mach))

\* lines 180-183: a call of buildAllOrdersClean is refused the lock and throws
LockTimeout ==
  /\ ~tryLock(lock)
  /\ lockTimeouts < MaxLockTimeouts
  /\ Stores(LockTimeoutStep(Mach))
  /\ lockTimeouts' = lockTimeouts + 1
  /\ UNCHANGED probe

Start ==
  /\ pc = "start"
  /\ Becomes(StartStep(Mach, shopSheet, sqSheet))

ProcessShopify ==
  /\ pc = "processShopify"
  /\ Becomes(EnterShopify(Mach, shopSheet))

ShopifyPause ==
  /\ pc = "shopifyLoop"
  /\ scan.r <= LastRow(shopSheet)
  /\ Becomes(ShopifyPauseStep(Mach))

ShopifyChunk ==
  /\ pc = "shopifyLoop"
  /\ scan.r <= LastRow(shopSheet)
  /\ Becomes(ShopifyChunkStep(Mach, shopSheet))

ShopifyEnd ==
  /\ pc = "shopifyLoop"
  /\ scan.r > LastRow(shopSheet)
  /\ Becomes(ShopifyEndStep(Mach))

ProcessSquarespace ==
  /\ pc = "processSquarespace"
  /\ Becomes(EnterSquarespace(Mach, sqSheet))

SquarespacePause ==
  /\ pc = "squarespaceLoop"
  /\ scan.r <= LastRow(sqSheet)
  /\ Becomes(SquarespacePauseStep(Mach))

SquarespaceChunk ==
  /\ pc = "squarespaceLoop"
  /\ scan.r <= LastRow(sqSheet)
  /\ Becomes(SquarespaceChunkStep(Mach, sqSheet))

SquarespaceEnd ==
  /\ pc = "squarespaceLoop"
  /\ scan.r > LastRow(sqSheet)
  /\ Becomes(SquarespaceEndStep(Mach))

Finish ==
  /\ pc = "finish"
  /\ Becomes(FinishStep(Mach))

\* resetCleanMasterBuildState, called while no build invocation runs
Reset ==
  /\ pc = "idle"
  /\ ~lock
  /\ PROPS # NoState \/ outSheet # <<>>
  /\ Becomes([Mach EXCEPT !.PROPS = NoState, !.outSheet = <<>>, !.hist = NoHist,
                          !.result = Result("reset", 0, 0)])

Next ==
  \/ TryLock
  \/ Start
  \/ ProcessShopify
  \/ ShopifyPause
  \/ ShopifyChunk
  \/ ShopifyEnd
  \/ ProcessSquarespace
  \/ SquarespacePause
  \/ SquarespaceChunk
  \/ SquarespaceEnd
  \/ Finish
  \/ Reset

Spec == Init /\ [][Next]_vars

\* Calls of buildAllOrdersClean while an invocation holds the lock.
InitLock == InitWith(MaxLockRows, 0, MaxLockRows)

NextLock == Next \/ LockTimeout

SpecLock == InitLock /\ [][NextLock]_vars

\* Builds over sheets whose lines include a zero or blank quantity.
ShopifyQuantityRows ==
  { ShopifyLine("A", 2, 5), ShopifyLine("B", 0, 3),
    [ShopifyLine("B", 1, 3) EXCEPT !.qty = BlankCell] }

SquarespaceQuantityRows ==
  { SquarespaceLine("X", 3, BlankCell), SquarespaceLine("X", 0, BlankCell),
    SquarespaceLine("Y", 2, Cell(3)), SquarespaceLine("Y", 0, Cell(3)),
    [SquarespaceLine("Y", 1, Cell(3)) EXCEPT !.qty = BlankCell] }

InitLines == InitOver(ShopifyQuantityRows, SquarespaceQuantityRows, MaxLineRows, 0, 0)

SpecLines == InitLines /\ [][Next]_vars

\* Builds over sheets whose date cells vary: each Shopify date column holds
\* a value that parses or one that does not; the lines of a Squarespace order
\* carry the order's dates.
ShopifyDateRows ==
  { [ShopifyLine("A", 2, 5) EXCEPT !.dates = ShopifyDates(a, b, c, d, e)] :
      a \in {BlankDate, DateObject(2021)}, b \in {JunkText, DateText(2022)},
      c \in {BlankDate, SerialNumber(45100)}, d \in {JunkText, DateText(2024)},
      e \in {BlankDate, DateObject(2025)} }

SquarespaceDated(orderId, qty, createdOn, modifiedOn) ==
  [SquarespaceLine(orderId, qty, Cell(3)) EXCEPT
     !.dates = SquarespaceDates(createdOn, modifiedOn)]

SquarespaceDateRows ==
  { SquarespaceDated("X", 1, BlankDate, JunkText),
    SquarespaceDated("X", 3, BlankDate, JunkText),
    SquarespaceDated("Y", 2, JunkText, DateObject(2024)),
    SquarespaceDated("Z", 1, DateText(2025), DateObject(2024)),
    SquarespaceDated("W", 1, BlankDate, SerialNumber(45100)),
    SquarespaceDated("V", 1, DateObject(2025), JunkText) }

\* At most one Shopify row and fewer than MaxDateRows Squarespace rows.
InitDates ==
  /\ \E a \in 0..1, b \in 0..(MaxDateRows - 1) :
       \E ra \in SheetRows(ShopifyDateRows, {}, a, 0),
          rb \in SheetRows(SquarespaceDateRows, {}, b, 0) :
         /\ shopSheet = Sheet("ok", ra)
         /\ sqSheet = Sheet("ok", rb)
  /\ InitBuild
  /\ probe = NoProbe

SpecDates == InitDates /\ [][Next]_vars

\* ----------------------------------------------- re-invocation until done

\* Builds that are re-invoked for as long as they pause, on workbooks without
\* a configuration error, every invocation scanning at least one chunk before
\* the time limit fires.  probe.chunks tells whether the running invocation
\* has scanned a chunk.
\* A workbook without configuration error: both tabs exist with every column,
\* and hold at most maxRows order lines between them.
SoundWorkbook(maxRows) ==
  \E a \in 0..maxRows, b \in 0..maxRows :
    /\ a + b <= maxRows
    /\ \E ra \in SheetRows(ShopifyLineRows, {}, a, 0),
          rb \in SheetRows(SquarespaceLineRows, {}, b, 0) :
         /\ shopSheet = Sheet("ok", ra)
         /\ sqSheet = Sheet("ok", rb)

InitLive ==
  /\ SoundWorkbook(MaxLiveRows)
  /\ InitBuild
  /\ probe = [fn |-> "buildAllOrdersClean", chunks |-> 0]

\* the invocation stands at the top of a chunk
AtChunk ==
  \/ pc = "shopifyLoop" /\ scan.r <= LastRow(shopSheet)
  \/ pc = "squarespaceLoop" /\ scan.r <= LastRow(sqSheet)

\* buildAllOrdersClean is invoked
LiveInvoke ==
  /\ tryLock(lock)
  /\ \E M \in {LockStep(Mach)} : Stores(M)
  /\ probe' = [probe EXCEPT !.chunks = 0]
  /\ UNCHANGED lockTimeouts

\* the invocation takes its next step, timeUp_() being false at a chunk
LiveStep ==
  /\ pc # "idle"
  /\ \E M \in {StepNoPause(Mach, shopSheet, sqSheet)} : Stores(M)
  /\ probe' = [probe EXCEPT !.chunks = IF AtChunk THEN 1 ELSE @]
  /\ UNCHANGED lockTimeouts

\* timeUp_() is true at the top of a chunk that is not the invocation's first
LivePause ==
  /\ AtChunk
  /\ probe.chunks = 1
  /\ \E M \in {IF pc = "shopifyLoop" THEN ShopifyPauseStep(Mach)
                ELSE SquarespacePauseStep(Mach)} : Stores(M)
  /\ UNCHANGED <<lockTimeouts, probe>>

NextLive == LiveInvoke \/ LiveStep \/ LivePause

ProgramCounters ==
  {"idle", "start", "processShopify", "shopifyLoop", "processSquarespace",
   "squarespaceLoop", "finish"}

\* The running invocation goes from one place of the code to another, nothing
\* else changing (as when processShopify_ returns at line 255).
Moves ==
  /\ pc # "idle"
  /\ pc' \in ProgramCounters \ {pc}
  /\ UNCHANGED <<shopSheet, sqSheet, PROPS, outSheet, lock, state, scan, result,
                 touched, hist, BANNED_LIST_CACHE_, inside, lockTimeouts, probe>>

\* The running invocation takes a step.  Within NextLive these are the steps
\* LiveStep and LivePause, and the action is enabled exactly while an
\* invocation runs (pc # "idle"); Moves lets that be seen without computing
\* a chunk.
Runs == Moves \/ LiveStep \/ LivePause

\* The host runs an invocation on until it returns, and a paused or finished
\* build is invoked again.
SpecLive ==
  InitLive /\ [][NextLive]_vars /\ WF_vars(LiveInvoke) /\ WF_vars(Runs)

\* ------------------------------------------- invocations killed by the host

\* Mutant of KillStep: the kill finds the property set by the step under way
\* and the sheet not yet written.
KillStep_PropertyFirst(M, W) ==
  [M EXCEPT !.pc = "idle", !.lock = FALSE, !.state = NoState, !.scan = NoScan,
            !.result = Result("killed", 0, 0), !.BANNED_LIST_CACHE_ = "null",
            !.inside = M.inside - 1, !.PROPS = W.PROPS]

\* The host ends the execution: nothing after the point reached runs, the
\* finally block included; the locals are gone and the script lock ends with
\* the execution.  M is the machine as the last step left it, W as the step
\* under way would leave it: the kill finds the output body of W and the
\* property of M, since in every step the write of the sheet precedes the
\* write of the property (lines 207-220, 391-399, 555-567, 686-694).
KillStep(M, W) ==
  [M EXCEPT !.pc = "idle", !.lock = FALSE, !.state = NoState, !.scan = NoScan,
            !.result = Result("killed", 0, 0), !.BANNED_LIST_CACHE_ = "null",
            !.inside = M.inside - 1, !.outSheet = W.outSheet]

\* Where a kill can land: between two steps, or inside the step under way
\* (the next statement of the code, or the pause when the time limit fired).
UnderWay ==
  {Mach, StepNoPause(Mach, shopSheet, sqSheet)}
    \cup (IF pc = "squarespaceLoop" /\ scan.r <= LastRow(sqSheet)
          THEN {SquarespacePauseStep(Mach)} ELSE {})

\* The raw rows of the chunk the invocation is scanning.
InFlight ==
  IF AtChunk
  THEN LET sheet == IF pc = "shopifyLoop" THEN shopSheet ELSE sqSheet
           take  == Min(CHUNK_ROWS, LastRow(sheet) - scan.r + 1)
       IN {<<IF pc = "shopifyLoop" THEN "Shopify" ELSE "Squarespace", r>> :
             r \in scan.r..(scan.r + take - 1)}
  ELSE {}

InitCrash ==
  /\ SoundWorkbook(MaxCrashRows)
  /\ InitBuild
  /\ probe = [fn |-> "kill", kills |-> 0, inflight |-> {}, torn |-> FALSE]

\* one step of the running invocation, the time limit not firing
BuildStep ==
  /\ pc # "idle"
  /\ Becomes(StepNoPause(Mach, shopSheet, sqSheet))

\* lines 300, 555-568: the time limit fired at the top of a chunk
BuildPause ==
  /\ AtChunk
  /\ Becomes(IF pc = "shopifyLoop" THEN ShopifyPauseStep(Mach)
             ELSE SquarespacePauseStep(Mach))

\* the host kills the running invocation
Kill ==
  /\ pc # "idle"
  /\ probe.kills < MaxKills
  /\ \E W \in UnderWay :
       /\ Stores(KillStep(Mach, W))
       /\ probe' = [probe EXCEPT !.kills = @ + 1, !.inflight = @ \cup InFlight,
                                 !.torn = @ \/ W.outSheet # outSheet]
  /\ UNCHANGED lockTimeouts

NextCrash == TryLock \/ BuildStep \/ BuildPause \/ Kill

SpecCrash == InitCrash /\ [][NextCrash]_vars

\* ------------------------------------------- the reset beside a running build

\* resetCleanMasterBuildState takes no lock: its two writes are steps of their
\* own among the steps of a build invocation.  probe.at is where the last call
\* of the reset stands: "idle" (none since the last build invocation began),
\* "deleted" (line 83 done) or "returned".
InitReset ==
  /\ SoundWorkbook(MaxResetRows)
  /\ InitBuild
  /\ probe = [fn |-> "resetCleanMasterBuildState", at |-> "idle", resets |-> 0]

\* lines 180-190: a call of buildAllOrdersClean is granted the lock
ResetInvoke ==
  /\ tryLock(lock)
  /\ Stores(LockStep(Mach))
  /\ probe' = [probe EXCEPT !.at = IF @ = "returned" THEN "idle" ELSE @]
  /\ UNCHANGED lockTimeouts

\* line 83: PROPS.deleteProperty
ResetDelete ==
  /\ probe.at # "deleted"
  /\ probe.resets < MaxResets
  /\ Stores([Mach EXCEPT !.PROPS = NoState])
  /\ probe' = [probe EXCEPT !.at = "deleted", !.resets = @ + 1]
  /\ UNCHANGED lockTimeouts

\* lines 85-91: the body of All_Orders_Clean is cleared and the call returns
ResetClear ==
  /\ probe.at = "deleted"
  /\ Stores([Mach EXCEPT !.outSheet = <<>>])
  /\ probe' = [probe EXCEPT !.at = "returned"]
  /\ UNCHANGED lockTimeouts

NextReset == ResetInvoke \/ BuildStep \/ BuildPause \/ ResetDelete \/ ResetClear

SpecReset == InitReset /\ [][NextReset]_vars

\* ------------------------------------------------- the pipeline entry points

\* The entry points of 10_UI_Menu that run the build and then the reports.
\* The file defines each of them twice and the later definition is the one
\* in force.
EntryPoints ==
  {"updateAllOrdersWithRefunds", "runFullPipelineFromSidebar",
   "runFullPipelineWithImports", "runFullPipelineTightLast60Days"}

\* The entry point calls buildOrdersSummaryReport after buildAllOrdersClean:
\* lines 369-370, and lines 234-238 of importAndUpdateAllOrders, which lines
\* 317 and 361 call; updateAllOrdersWithRefunds of lines 267-309 calls
\* cleanBannedEmailsFromAllOrdersClean instead.
CallsSummary(entry) == entry # "updateAllOrdersWithRefunds"

\* probe.at is where the entry point stands: "idle" (none runs), "build"
\* (inside its call of buildAllOrdersClean or just back from it), "summary"
\* (inside buildOrdersSummaryReport).
InitPipeline ==
  /\ SoundWorkbook(MaxPipelineRows)
  /\ InitBuild
  /\ probe = [fn |-> "pipeline", entry |-> "none", at |-> "idle", runs |-> 0]

\* the entry point has run its stages before the build and calls
\* buildAllOrdersClean, which is granted the lock
PipelineInvoke ==
  /\ probe.at = "idle"
  /\ probe.runs < MaxPipelineRuns
  /\ tryLock(lock)
  /\ Stores(LockStep(Mach))
  /\ \E entry \in EntryPoints :
       probe' = [probe EXCEPT !.entry = entry, !.at = "build", !.runs = @ + 1]
  /\ UNCHANGED lockTimeouts

\* buildAllOrdersClean has returned, its message is dropped and
\* buildOrdersSummaryReport is called
PipelineSummary ==
  /\ probe.at = "build"
  /\ pc = "idle"
  /\ result.kind \in {"complete", "paused"}
  /\ CallsSummary(probe.entry)
  /\ probe' = [probe EXCEPT !.at = "summary"]
  /\ UNCHANGED <<shopSheet, sqSheet, PROPS, outSheet, lock, pc, state, scan, result,
                 touched, hist, BANNED_LIST_CACHE_, inside, lockTimeouts>>

\* the entry point returns
PipelineReturn ==
  /\ pc = "idle"
  /\ \/ probe.at = "summary"
     \/ probe.at = "build" /\ ~CallsSummary(probe.entry)
  /\ probe' = [probe EXCEPT !.at = "idle"]
  /\ UNCHANGED <<shopSheet, sqSheet, PROPS, outSheet, lock, pc, state, scan, result,
                 touched, hist, BANNED_LIST_CACHE_, inside, lockTimeouts>>

NextPipeline ==
  PipelineInvoke \/ BuildStep \/ BuildPause \/ PipelineSummary \/ PipelineReturn

SpecPipeline == InitPipeline /\ [][NextPipeline]_vars

\* ------------------------------------------- helper functions on their own

\* A helper is called on arguments of its own; the workbook is empty and no
\* build runs.
InitProbe ==
  /\ shopSheet = Sheet("ok", <<>>)
  /\ sqSheet = Sheet("ok", <<>>)
  /\ InitBuild

UnchangedBuild ==
  UNCHANGED <<shopSheet, sqSheet, PROPS, outSheet, lock, pc, state, scan, result,
              touched, hist, BANNED_LIST_CACHE_, inside, lockTimeouts>>

\* The line objects processSquarespace_ pushes to curOrderLines (lines
\* 669-676), and any a caller may hand to the repair: quantity as parsed,
\* unitPrice and lineRevenue, and the order net of the line's own raw row.
GroupLines ==
  { [platform |-> "Squarespace", orderId |-> "X", quantity |-> q,
     unitPrice |-> Num(up), lineRevenue |-> Num(lr), orderNet |-> n] :
      q \in {0, 1, 3}, up \in {0, 5}, lr \in {0, 12}, n \in {0, 40} }

\* The groups of one to MaxGroupLines such lines.
Groups == UNION { [1..n -> GroupLines] : n \in 1..MaxGroupLines }

\* The rows of a group in the order perm (a permutation of their indexes).
Permuted(rows, perm) == [i \in 1..Len(rows) |-> rows[perm[i]]]

Orders(n) == { f \in [1..n -> 1..n] : \A i, j \in 1..n : f[i] = f[j] => i = j }

InitPricing ==
  /\ InitProbe
  /\ \E rows \in Groups :
       probe = [fn |-> "fixSquarespaceLinePricing_", rows |-> rows, called |-> FALSE,
                perm |-> [i \in 1..Len(rows) |-> i], out |-> <<>>]

\* fixSquarespaceLinePricing_(rows), the rows taken in some order
FixPricing ==
  /\ probe.fn = "fixSquarespaceLinePricing_"
  /\ ~probe.called
  /\ \E perm \in Orders(Len(probe.rows)) :
       probe' = [probe EXCEPT
                   !.called = TRUE,
                   !.perm = perm,
                   !.out = fixSquarespaceLinePricing_(Permuted(probe.rows, perm))]
  /\ UnchangedBuild

SpecPricing == InitPricing /\ [][FixPricing]_vars

\* The order-level cells of a Shopify row and the optional columns present.
TotalCells ==
  [totalPrice : {BlankCell, Cell(100), Cell(-100)},
   totalDiscounts : {BlankCell, Cell(10), Cell(-10)},
   currentTotalPrice : {BlankCell, Cell(0), Cell(90), Cell(-90)},
   totalRefunds : {BlankCell, Cell(5)}]

InitTotals ==
  /\ InitProbe
  /\ \E c \in [ShopifyTotalColumns -> BOOLEAN], row \in TotalCells :
       probe = [fn |-> "ShopifyTotals", c |-> c, row |-> row, called |-> FALSE,
                out |-> [discount |-> 0, refund |-> 0, net |-> 0]]

\* lines 355-365 on one row
ComputeTotals ==
  /\ probe.fn = "ShopifyTotals"
  /\ ~probe.called
  /\ probe' = [probe EXCEPT !.called = TRUE, !.out = ShopifyTotalsOf(probe.c, probe.row)]
  /\ UnchangedBuild

SpecTotals == InitTotals /\ [][ComputeTotals]_vars

\* Raw e-mail cells, each described by its parts: a "mailto:" scheme, upper
\* case, the local part and whether it is written with a dot, a "+x" tag, the
\* domain, and a second address after a comma.
ExampleCom == <<"e", "x", "a", "m", "p", "l", "e", ".", "c", "o", "m">>

EmailDomains ==
  { GmailCom, GooglemailCom, ExampleCom, DirtlegalCom,
    <<"m", "a", "i", "l", ".">> \o DirtlegalCom,
    <<"n", "o", "t">> \o DirtlegalCom }

Addresses ==
  [scheme : BOOLEAN, upper : BOOLEAN, local : {<<"u", "s", "e", "r">>, <<"p", "a", "t">>}, dotted : BOOLEAN,
   tag : BOOLEAN, domain : EmailDomains, more : BOOLEAN]

PlainAddress(local, domain) ==
  [scheme |-> FALSE, upper |-> FALSE, local |-> local, dotted |-> FALSE,
   tag |-> FALSE, domain |-> domain, more |-> FALSE]

toUpperCase(str) ==
  [i \in 1..Len(str) |->
     IF \E k \in 1..Len(LowerCaseLetters) : LowerCaseLetters[k] = str[i]
     THEN UpperCaseLetters[CHOOSE k \in 1..Len(LowerCaseLetters) : LowerCaseLetters[k] = str[i]]
     ELSE str[i]]

\* "u.ser" for "user"
Dotted(local) == <<Head(local), ".">> \o Tail(local)

\* The text of the cell an address description stands for.
Written(a) ==
  LET body == (IF a.dotted THEN Dotted(a.local) ELSE a.local)
                \o (IF a.tag THEN <<"+", "x">> ELSE <<>>) \o <<"@">> \o a.domain
  IN (IF a.scheme THEN Mailto ELSE <<>>)
       \o (IF a.upper THEN toUpperCase(body) ELSE body)
       \o (IF a.more THEN <<",", " ", "z", "@", "z", ".", "c", "o">> ELSE <<>>)

\* The cells of the Banned_Emails tab: none, an address, or a domain written
\* bare, as "@domain" or as "*@domain".
BannedCells ==
  {[kind |-> "none"]}
    \cup { [kind |-> "exact", addr |-> a] :
             a \in { PlainAddress(<<"u", "s", "e", "r">>, GmailCom),
                     [PlainAddress(<<"u", "s", "e", "r">>, GmailCom) EXCEPT
                        !.upper = TRUE, !.dotted = TRUE, !.tag = TRUE],
                     PlainAddress(<<"u", "s", "e", "r">>, ExampleCom),
                     [PlainAddress(<<"u", "s", "e", "r">>, ExampleCom) EXCEPT
                        !.dotted = TRUE, !.scheme = TRUE] } }
    \cup { [kind |-> "domain", domain |-> ExampleCom, prefix |-> pre, upper |-> FALSE] :
             pre \in {<<>>, <<"@">>, <<"*", "@">>} }
    \cup { [kind |-> "domain", domain |-> GmailCom, prefix |-> <<>>, upper |-> TRUE] }

\* Column A of the Banned_Emails tab holding that one cell.
BannedValues(cell) ==
  CASE cell.kind = "none"  -> {}
    [] cell.kind = "exact" -> {Written(cell.addr)}
    [] OTHER -> {cell.prefix \o (IF cell.upper THEN toUpperCase(cell.domain)
                                                ELSE cell.domain)}

InitEmail ==
  /\ InitProbe
  /\ \E a \in Addresses, cell \in BannedCells :
       probe = [fn |-> "isBannedEmail_", addr |-> a, cell |-> cell, called |-> FALSE,
                out |-> FALSE]

\* isBannedEmail_(emailRaw, loadBannedList_()) on one cell and one list
CheckEmail ==
  /\ probe.fn = "isBannedEmail_"
  /\ ~probe.called
  /\ probe' = [probe EXCEPT
                 !.called = TRUE,
                 !.out = isBannedEmail_(Written(probe.addr),
                                        BannedListOf(BannedValues(probe.cell)))]
  /\ UnchangedBuild

SpecEmail == InitEmail /\ [][CheckEmail]_vars

\* ---------------------------------------- backfillOrderDatesInCleanMaster

\* The order_date cell of a canonical line: the Date written at lines 371 and
\* 529, or "" (orderDate || "").
OrderDateCell(line) == IF line.year = 0 THEN BlankDate ELSE DateObject(line.year)

\* buildShopifyOrderDateMap_ / buildSquarespaceOrderDateMap_ (lines 729-798):
\* for each order id of the sheet, the date of the first row of that id whose
\* date cells parse (if (d && !map.has(oid)) map.set(oid, d)).
OrderDateMap(sheet, OrderDate(_)) ==
  LET rows == sheet.rows
      Dated(oid) == {i \in 1..Len(rows) : rows[i].orderId = oid /\ OrderDate(rows[i]) # 0}
      ids == {rows[i].orderId : i \in 1..Len(rows)} \ {""}
  IN [oid \in {o \in ids : Dated(o) # {}} |->
        OrderDate(rows[CHOOSE i \in Dated(oid) : \A k \in Dated(oid) : i <= k])]

buildShopifyOrderDateMap_(shop) == OrderDateMap(shop, ShopifyOrderDate)

buildSquarespaceOrderDateMap_(sq) == OrderDateMap(sq, SquarespaceOrderDate)

\* lines 122-138: the rows to update, in sheet order, as [rowNum, date]; the
\* row of body[i] is sheet row i + 1.
RECURSIVE RowsToUpdate(_, _, _, _)
RowsToUpdate(body, shopMap, sqMap, i) ==
  IF i > Len(body) THEN <<>>
  ELSE
    LET line == body[i]
        hasDate == parseAnyDate_(OrderDateCell(line)) # 0
        d == IF line.platform = "Shopify" /\ line.orderId \in DOMAIN shopMap
               THEN shopMap[line.orderId]
             ELSE IF line.platform = "Squarespace" /\ line.orderId \in DOMAIN sqMap
               THEN sqMap[line.orderId]
             ELSE 0
        rest == RowsToUpdate(body, shopMap, sqMap, i + 1)
    IN IF line.platform = "" \/ line.orderId = "" THEN rest
       ELSE IF hasDate THEN rest
       ELSE IF d # 0 THEN <<[rowNum |-> i + 1, date |-> d]>> \o rest
       ELSE rest

\* The batching that writes one range from the first row to update onwards.
Batches_OneRange(rowsToUpdate) ==
  IF rowsToUpdate = <<>> THEN <<>>
  ELSE <<[start |-> rowsToUpdate[1].rowNum,
          buf |-> [k \in 1..Len(rowsToUpdate) |-> rowsToUpdate[k].date]]>>

\* lines 146-170: the contiguous runs of the rows to update, each a range
\* [start, buf] for clean.getRange(start, colOrderDt + 1, buf.length, 1).
RECURSIVE BatchRuns(_, _, _, _)
BatchRuns(rowsToUpdate, i, cur, done) ==
  IF i > Len(rowsToUpdate) THEN Append(done, cur)
  ELSE IF rowsToUpdate[i].rowNum = cur.start + Len(cur.buf)
    THEN BatchRuns(rowsToUpdate, i + 1,
                   [cur EXCEPT !.buf = Append(cur.buf, rowsToUpdate[i].date)], done)
  ELSE BatchRuns(rowsToUpdate, i + 1,
                 [start |-> rowsToUpdate[i].rowNum, buf |-> <<rowsToUpdate[i].date>>],
                 Append(done, cur))

Batches(rowsToUpdate) ==
  IF rowsToUpdate = <<>> THEN <<>>
  ELSE BatchRuns(rowsToUpdate, 2,
                 [start |-> rowsToUpdate[1].rowNum, buf |-> <<rowsToUpdate[1].date>>],
                 <<>>)

\* getRange(start, colOrderDt + 1, buf.length, 1).setValues(...) on the body:
\* a range past the last row extends the sheet with otherwise blank rows.
SetOrderDates(body, batch) ==
  LET first == batch.start - FIRST_DATA_ROW + 1
      last  == first + Len(batch.buf) - 1
  IN [i \in 1..Max(Len(body), last) |->
        LET line == IF i <= Len(body) THEN body[i] ELSE BlankLine
        IN IF i >= first /\ i <= last
           THEN [line EXCEPT !.year = batch.buf[i - first + 1]]
           ELSE line]

RECURSIVE WriteBatches(_, _, _)
WriteBatches(body, batches, k) ==
  IF k > Len(batches) THEN body
  ELSE WriteBatches(SetOrderDates(body, batches[k]), batches, k + 1)

\* backfillOrderDatesInCleanMaster (lines 97-174) on the body of the clean
\* sheet: the body afterwards and the ranges written.
backfillOrderDatesInCleanMaster(body, shop, sq) ==
  LET After(batches) == [body |-> WriteBatches(body, batches, 1), writes |-> batches]
  IN IF body = <<>> THEN [body |-> body, writes |-> <<>>]
     ELSE After(Batches(RowsToUpdate(body, buildShopifyOrderDateMap_(shop),
                                       buildSquarespaceOrderDateMap_(sq), 1)))

\* Raw rows for the backfill: lines of order A some with and some without a
\* date that parses, lines of order B without; likewise X and Y.
ShopifyBackfillRows ==
  { [ShopifyLine("A", 2, 5) EXCEPT
       !.dates = ShopifyDates(BlankDate, JunkText, BlankDate, BlankDate, BlankDate)],
    [ShopifyLine("A", 2, 5) EXCEPT
       !.dates = ShopifyDates(BlankDate, JunkText, BlankDate, DateText(2024), BlankDate)],
    ShopifyLine("A", 2, 5),
    [ShopifyLine("B", 1, 3) EXCEPT
       !.dates = ShopifyDates(BlankDate, BlankDate, BlankDate, BlankDate, BlankDate)] }

SquarespaceBackfillRows ==
  { SquarespaceDated("X", 1, JunkText, DateObject(2024)),
    SquarespaceDated("Y", 1, BlankDate, JunkText) }

\* A line of All_Orders_Clean as an earlier build left it.
CleanLine(platform, orderId, year) ==
  [BlankLine EXCEPT !.platform = platform, !.orderId = orderId, !.year = year,
                    !.product = "Widget", !.qty = 1]

CleanLines ==
  { BlankLine, CleanLine("Shopify", "A", 0), CleanLine("Shopify", "A", 2020),
    CleanLine("Shopify", "B", 0), CleanLine("Squarespace", "X", 0),
    CleanLine("Squarespace", "A", 0) }

\* A clean sheet of at most MaxCleanRows body rows, raw sheets of at most two
\* Shopify rows and one Squarespace row; no build is under way.
InitBackfill ==
  /\ \E a \in 0..2, b \in 0..1 :
       \E ra \in SheetRows(ShopifyBackfillRows, {}, a, 0),
          rb \in SheetRows(SquarespaceBackfillRows, {}, b, 0) :
         /\ shopSheet = Sheet("ok", ra)
         /\ sqSheet = Sheet("ok", rb)
  /\ outSheet \in UNION { [1..n -> CleanLines] : n \in 0..MaxCleanRows }
  /\ PROPS = NoState
  /\ lock = FALSE
  /\ pc = "idle"
  /\ state = NoState
  /\ scan = NoScan
  /\ result = Result("none", 0, 0)
  /\ touched = FALSE
  /\ hist = NoHist
  /\ BANNED_LIST_CACHE_ = "null"
  /\ inside = 0
  /\ lockTimeouts = 0
  /\ probe = [fn |-> "backfillOrderDatesInCleanMaster", calls |-> 0,
              before |-> <<>>, writes |-> <<>>]

\* backfillOrderDatesInCleanMaster(), called at most twice in a row
Backfill ==
  /\ probe.fn = "backfillOrderDatesInCleanMaster"
  /\ probe.calls < 2
  /\ LET out == backfillOrderDatesInCleanMaster(outSheet, shopSheet, sqSheet)
     IN /\ outSheet' = out.body
        /\ probe' = [probe EXCEPT !.calls = probe.calls + 1, !.before = outSheet,
                                  !.writes = out.writes]
  /\ UNCHANGED <<shopSheet, sqSheet, PROPS, lock, pc, state, scan, result,
                 touched, hist, BANNED_LIST_CACHE_, inside, lockTimeouts>>

SpecBackfill == InitBackfill /\ [][Backfill]_vars

\* ------------------------------------------------------------------ claims

\* An invocation has returned finish_'s completion result.
Done == pc = "idle" /\ result.kind = "complete"

\* An invocation has returned saveState_'s paused message.
Paused == pc = "idle" /\ result.kind = "paused"

\* The raw row a canonical line was made from.
SourceRow(line) ==
  IF line.platform = "Shopify" THEN shopSheet.rows[line.src - FIRST_DATA_ROW + 1]
  ELSE sqSheet.rows[line.src - FIRST_DATA_ROW + 1]

\* The order-level totals the raw store holds for the order of a canonical line.
SourceTotals(line) ==
  IF line.platform = "Shopify" THEN ShopifyTotals(SourceRow(line))
  ELSE SquarespaceTotals(SourceRow(line))

\* The canonical lines of the order of outSheet[i].
LinesOfOrder(i) ==
  SelectSeq(outSheet, LAMBDA l : l.platform = outSheet[i].platform
                                 /\ l.orderId = outSheet[i].orderId)

\* C1: after a completed build, for every order with at least one canonical
\* line, order_discount_total, order_refund_total and order_net_revenue summed
\* over the order's canonical lines each equal the source order-level value
\* (once, not N times, not zero times), wherever chunk boundaries, periodic
\* buffer flushes and pauses fall.
C1_TotalsOnce ==
  Done =>
    \A i \in 1..Len(outSheet) :
      LET ls == LinesOfOrder(i)
          t  == SourceTotals(outSheet[i])
      IN /\ SumSeq([j \in 1..Len(ls) |-> ls[j].discount]) = t.discount
         /\ SumSeq([j \in 1..Len(ls) |-> ls[j].refund]) = t.refund
         /\ SumSeq([j \in 1..Len(ls) |-> ls[j].net]) = t.net

\* C2: a build that completes after any number of pauses leaves the same
\* canonical table and reports the same written/excluded counts as one
\* uninterrupted invocation on the same raw stores.
C2_ResumeEqualsUninterrupted ==
  Done =>
    LET U == Uninterrupted(shopSheet, sqSheet) IN
    /\ outSheet = U.outSheet
    /\ result = U.result

\* C3: the end of the Shopify scan, also on a store with a header row and no
\* data rows, sets phase to squarespace before finish_ runs, and a completed
\* build has scanned every data row of both stores.
C3_BothStoresScanned ==
  /\ pc = "finish" => state.phase = "squarespace"
  /\ Done => /\ hist.scanned.shopify = Len(shopSheet.rows)
             /\ hist.scanned.squarespace = Len(sqSheet.rows)

\* The current build paused between the phases (the time limit fired at the
\* top of the first Squarespace chunk, after the Shopify scan had ended and
\* persisted its transition) and nowhere inside the Squarespace scan.
PausedAtBoundaryOnly == hist.pauses = {"boundary"}

\* C4: a build interrupted after the Shopify phase ended and before any
\* Squarespace row was scanned, then re-invoked to completion, leaves the
\* canonical table of an uninterrupted run: no line duplicated, none missing.
C4_BoundaryResume ==
  (Done /\ PausedAtBoundaryOnly) =>
    /\ outSheet = Uninterrupted(shopSheet, sqSheet).outSheet
    /\ result = Uninterrupted(shopSheet, sqSheet).result

\* C4 witness: such a build completed with lines of both platforms.
C4_Witness ==
  /\ Done
  /\ PausedAtBoundaryOnly
  /\ \E i \in 1..Len(outSheet) : outSheet[i].platform = "Shopify"
  /\ \E i \in 1..Len(outSheet) : outSheet[i].platform = "Squarespace"

\* C5: the persisted state only moves forward: it is created as the initial
\* platformA state, its phase never returns from squarespace to shopify, it
\* exists after every paused return, and a step of an invocation deletes it
\* exactly when that invocation returns the completion result.
C5_Lifecycle ==
  [][ /\ (~PROPS.started /\ PROPS'.started) => PROPS' = InitialState
      /\ (PROPS.started /\ PROPS'.started /\ PROPS.phase = "squarespace")
            => PROPS'.phase = "squarespace"
      /\ (pc # "idle" /\ pc' = "idle" /\ result'.kind = "paused") => PROPS'.started
      /\ pc # "idle" =>
           ((PROPS.started /\ ~PROPS'.started)
              <=> (pc' = "idle" /\ result'.kind = "complete")) ]_vars

\* C5 witness: a paused return in the Squarespace phase, the state persisted.
C5_Witness ==
  /\ Paused
  /\ PROPS.started
  /\ PROPS.phase = "squarespace"
  /\ PROPS.rowCursor > FIRST_DATA_ROW

\* C6: an invocation that throws on a missing store or a missing column
\* leaves the persisted build state and the output table as they were when
\* it was called.
C6_ThrowLeavesNoTrace ==
  (pc = "idle" /\ result.kind = "threw") => ~touched

\* The raw rows the canonical table was made from, as <<platform, row>>.
WrittenSrc == {<<outSheet[i].platform, outSheet[i].src>> : i \in 1..Len(outSheet)}

\* C7: at a paused return the persisted rowCursor is the first raw row of the
\* phase not yet scanned, every line made from the rows before it is in the
\* output table, and the persisted outRow and written count those lines.
C7_PauseIsConsistent ==
  Paused =>
    /\ PROPS.started
    /\ PROPS.rowCursor = FIRST_DATA_ROW + hist.scanned[PROPS.phase]
    /\ WrittenSrc = hist.kept
    /\ Len(outSheet) = Cardinality(hist.kept)
    /\ PROPS.written = Len(outSheet)
    /\ PROPS.outRow = FIRST_DATA_ROW + PROPS.written
    /\ result.written = PROPS.written

\* C7 witness: a pause inside the Squarespace scan with a Squarespace line
\* already in the output table.
C7_Witness ==
  /\ Paused
  /\ PROPS.phase = "squarespace"
  /\ PROPS.rowCursor > FIRST_DATA_ROW
  /\ \E i \in 1..Len(outSheet) : outSheet[i].platform = "Squarespace"

\* C8: a Squarespace order group is flushed to the write buffer only when a
\* line of another order arrives, when the time limit fires, or when the
\* store is exhausted.
C8_FlushOnlyOnThreeCauses ==
  hist.flushedBy \subseteq {"orderChange", "timeUp", "exhausted"}

\* The row reaches the renewal rule of the Squarespace scan and matches it.
TriggersRenewalRule(row) ==
  /\ ~row.blank
  /\ ~row.test
  /\ ~(row.email # NoEmail /\ isBannedEmail_(row.email, loadBannedList_))
  /\ row.orderId # ""
  /\ row.product # ""
  /\ ~isBannedProduct_(row.product)
  /\ shouldExcludeSquarespaceOrder_(SquarespaceOrderDate(row), row.product)

\* C9: when a line of a Squarespace order triggers the renewal rule, the
\* completed canonical table holds no line of that order.
C9_RenewalExcludesWholeOrder ==
  (Done /\ hist.scanned.squarespace = Len(sqSheet.rows)) =>
    \A k \in 1..Len(sqSheet.rows) :
      TriggersRenewalRule(sqSheet.rows[k]) =>
        \A i \in 1..Len(outSheet) :
          ~(outSheet[i].platform = "Squarespace"
            /\ outSheet[i].orderId = sqSheet.rows[k].orderId)

\* C10: once a line of a Squarespace order has triggered the renewal rule, no
\* line of that order id met later in the scan is written, also across a
\* pause and a later invocation.
C10_ExcludedIdRemembered ==
  (Done /\ hist.scanned.squarespace = Len(sqSheet.rows)) =>
    \A k \in 1..Len(sqSheet.rows) :
      TriggersRenewalRule(sqSheet.rows[k]) =>
        \A i \in 1..Len(outSheet) :
          ~(outSheet[i].platform = "Squarespace"
            /\ outSheet[i].orderId = sqSheet.rows[k].orderId
            /\ outSheet[i].src > k + FIRST_DATA_ROW - 1)

\* C11: at no time are two invocations of buildAllOrdersClean both between
\* the grant of the lock and its release, and the invocation that reads and
\* writes the build state and the output table is the one holding the lock.
C11_MutualExclusion ==
  /\ inside <= 1
  /\ pc # "idle" => (lock /\ inside = 1)
  /\ pc = "idle" => (~lock /\ inside = 0)

\* C11 witness: a call was refused the lock while an invocation was scanning.
C11_Witness ==
  /\ lockTimeouts > 0
  /\ lock
  /\ pc \in {"shopifyLoop", "squarespaceLoop"}

\* C12: a call that cannot get the lock throws the retry error and leaves the
\* persisted build state, the output table and the banned-list cache (and
\* the lock and the holder's invocation) as they were.
C12_LockTimeoutMutatesNothing ==
  [][ lockTimeouts' # lockTimeouts =>
        /\ PROPS' = PROPS
        /\ outSheet' = outSheet
        /\ BANNED_LIST_CACHE_' = BANNED_LIST_CACHE_
        /\ lock' = lock
        /\ pc' = pc /\ state' = state /\ scan' = scan ]_vars

\* C12 witness: a call was refused while a build with written lines was under way.
C12_Witness ==
  /\ lockTimeouts > 0
  /\ PROPS.started
  /\ PROPS.written > 0
  /\ outSheet # <<>>

\* A group none of whose lines has a positive unitPrice or lineRevenue.
Unpriced(rows) ==
  \A i \in 1..Len(rows) : ~RPos(rows[i].lineRevenue) /\ ~RPos(rows[i].unitPrice)

\* Every line of the group carries the same order net.
SameOrderNet(rows) == \A i \in 1..Len(rows) : rows[i].orderNet = rows[1].orderNet

\* The rows the repair was called on, in the order it was called on them.
ProbeRows == Permuted(probe.rows, probe.perm)

PricingCalled == probe.fn = "fixSquarespaceLinePricing_" /\ probe.called

\* C13: allocation conservation.  After the repair of a group with no positive
\* unitPrice or lineRevenue and an order net N > 0, the lineRevenues sum to N,
\* each line's lineRevenue is N * q_i / (sum of q) with q_i = max(1, quantity_i),
\* and its unitPrice is that share divided by q_i.  (Exact arithmetic; the
\* code's floating-point rounding is outside the model.)
C13_AllocationConservation ==
  (PricingCalled /\ Unpriced(ProbeRows) /\ SameOrderNet(ProbeRows)
     /\ ProbeRows[1].orderNet > 0) =>
    LET N    == ProbeRows[1].orderNet
        q(i) == Max(1, ProbeRows[i].quantity)
        lines == 1..Len(ProbeRows)
        qs   == SumSeq([i \in lines |-> q(i)])
    IN /\ RSum([i \in lines |-> probe.out[i].lineRevenue]) = Num(N)
       /\ \A i \in lines :
            /\ probe.out[i].lineRevenue = Frac(N * q(i), qs)
            /\ probe.out[i].unitPrice = Frac(N * q(i), qs * q(i))

\* C13 witness: quantities 1 and 3 with N = 40 were repaired to lineRevenues
\* 10 and 30 and unitPrices 10 and 10.
C13_Witness ==
  /\ PricingCalled /\ Unpriced(ProbeRows) /\ Len(ProbeRows) = 2
  /\ ProbeRows[1].quantity = 1 /\ ProbeRows[2].quantity = 3
  /\ ProbeRows[1].orderNet = 40 /\ ProbeRows[2].orderNet = 40
  /\ probe.out[1].lineRevenue = Num(10) /\ probe.out[2].lineRevenue = Num(30)
  /\ probe.out[1].unitPrice = Num(10) /\ probe.out[2].unitPrice = Num(10)

SameAsInOriginalOrder ==
  LET original == fixSquarespaceLinePricing_(probe.rows) IN
  \A i \in 1..Len(probe.rows) :
    /\ probe.out[i].unitPrice = original[probe.perm[i]].unitPrice
    /\ probe.out[i].lineRevenue = original[probe.perm[i]].lineRevenue

FirstReason(platform, row) ==
  IF row.blank THEN "blank"
  ELSE IF row.test THEN "test"
  ELSE IF row.email # NoEmail /\ isBannedEmail_(row.email, loadBannedList_) THEN "email"
  ELSE IF platform = "Squarespace" /\ row.orderId = "" THEN "noid"
  ELSE IF row.product = "" THEN "noproduct"
  ELSE IF isBannedProduct_(row.product) THEN "product"
  ELSE IF platform = "Squarespace" /\ shouldExcludeSquarespaceOrder_(SquarespaceOrderDate(row), row.product)
    THEN "renewal"
  ELSE "line"

\* The raw rows scanned so far, as <<platform, row>>.
ScannedSrc ==
  {<<"Shopify", i + FIRST_DATA_ROW - 1>> : i \in 1..hist.scanned.shopify}
    \cup {<<"Squarespace", i + FIRST_DATA_ROW - 1>> : i \in 1..hist.scanned.squarespace}

RawRow(src) ==
  IF src[1] = "Shopify" THEN shopSheet.rows[src[2] - FIRST_DATA_ROW + 1]
  ELSE sqSheet.rows[src[2] - FIRST_DATA_ROW + 1]

\* C17: exclusion accounting.  At completion the reported excluded count is
\* the number of raw rows, over all invocations of the build, that were
\* dropped for the test flag, a banned email, a banned product or the renewal
\* pattern (the row matches it, or it is a row of an order another scanned
\* row of which matches it), each counted once and none of them written;
\* every other scanned row that was not written is fully blank, has no order
\* id or has an empty product name, and is not counted.
C17_ExclusionAccounting ==
  Done =>
    /\ result.excluded = Cardinality(hist.dropped)
    /\ hist.dropped \subseteq ScannedSrc
    /\ hist.dropped \cap WrittenSrc = {}
    /\ \A src \in ScannedSrc :
         LET reason == FirstReason(src[1], RawRow(src)) IN
         /\ src \in hist.dropped =>
              \/ reason \in {"test", "email", "product", "renewal"}
              \/ /\ src[1] = "Squarespace"
                 /\ \E other \in ScannedSrc :
                      /\ other[1] = "Squarespace"
                      /\ RawRow(other).orderId = RawRow(src).orderId
                      /\ FirstReason("Squarespace", RawRow(other)) = "renewal"
         /\ (src \notin hist.dropped /\ src \notin WrittenSrc) =>
              reason \in {"blank", "noid", "noproduct"}

\* C17 witness: a build that paused has completed; it counted a row dropped
\* at a row test and a collected line discarded with its order.
C17_Witness ==
  /\ Done /\ hist.pauses # {} /\ result.excluded >= 2
  /\ \E src \in hist.dropped : FirstReason(src[1], RawRow(src)) = "line"
  /\ \E src \in hist.dropped : FirstReason(src[1], RawRow(src)) = "renewal"

\* The totals of a Shopify row were computed and the row has no explicit net:
\* the Current Total Price column is absent or its cell is blank.
NoExplicitNet ==
  /\ probe.fn = "ShopifyTotals" /\ probe.called
  /\ (~probe.c.currentTotalPrice \/ probe.row.currentTotalPrice = BlankCell)

\* The number in an order-level cell of the probed row, 0 when the column is
\* absent or the cell blank.
Amount(k) == parseMoney_(CellOf(probe.c, probe.row, k))

\* C18: Platform A net fallback.  With no explicit net figure the order net
\* revenue is | |grossTotal| - |discountTotal| |.
C18_NetFallsBackToGrossLessDiscount ==
  NoExplicitNet =>
    probe.out.net = Abs(Abs(Amount("totalPrice")) - Abs(Amount("totalDiscounts")))

\* C18, amended: with no explicit net figure the order net revenue is
\* |grossTotal|, the absolute value of Total Price; the discount total is not
\* subtracted.
C18_NetFallsBackToGross ==
  NoExplicitNet => probe.out.net = Abs(Amount("totalPrice"))

\* C18 witness: a row with Total Price 100, Total Discounts 10 and a blank
\* Current Total Price got net 100 and discount 10.
C18_Witness ==
  /\ NoExplicitNet
  /\ probe.c.totalPrice /\ probe.row.totalPrice = Cell(100)
  /\ probe.c.totalDiscounts /\ probe.row.totalDiscounts = Cell(10)
  /\ probe.c.currentTotalPrice
  /\ probe.out.net = 100 /\ probe.out.discount = 10

\* The first of the cells, taken in order, that parses as a date: its year,
\* 0 when none parses.
RECURSIVE FirstThatParses(_)
FirstThatParses(cells) ==
  IF cells = <<>> THEN 0
  ELSE IF parseAnyDate_(Head(cells)) # 0 THEN parseAnyDate_(Head(cells))
  ELSE FirstThatParses(Tail(cells))

\* The date cells of a raw row in the order the claim gives.
DateCells(platform, row) ==
  IF platform = "Shopify"
  THEN <<row.dates.processedLocal, row.dates.processedAt, row.dates.createdLocal,
         row.dates.createdAt, row.dates.updatedAt>>
  ELSE <<row.dates.createdOn, row.dates.modifiedOn>>

\* C19: date fallback order.  The order_date of a written line is the first
\* value that parses among Processed At (Local), Processed At, Created At
\* (Local), Created At, Updated At on Shopify and among Created On, Modified
\* On on Squarespace; a row none of whose date cells parses is still written,
\* with an empty order_date (year 0 here).
C19_DateFallbackOrder ==
  /\ \A i \in 1..Len(outSheet) :
       outSheet[i] # BlankLine =>
         outSheet[i].year =
           FirstThatParses(DateCells(outSheet[i].platform, SourceRow(outSheet[i])))
  /\ Done =>
       \A src \in ScannedSrc :
         FirstReason(src[1], RawRow(src)) = "line" => src \in WrittenSrc

\* C19 witness: a completed build wrote a Shopify line dated by its Processed
\* At although Created At and Updated At parse too and Processed At (Local)
\* is blank, and a Squarespace line with an empty order_date.
C19_Witness ==
  /\ Done
  /\ \E i \in 1..Len(outSheet) :
       /\ outSheet[i].platform = "Shopify" /\ outSheet[i].year = 2022
       /\ SourceRow(outSheet[i]).dates.processedLocal = BlankDate
       /\ SourceRow(outSheet[i]).dates.createdAt = DateText(2024)
       /\ SourceRow(outSheet[i]).dates.updatedAt = DateObject(2025)
  /\ \E i \in 1..Len(outSheet) :
       /\ outSheet[i].platform = "Squarespace" /\ outSheet[i].year = 0
       /\ FirstThatParses(DateCells("Squarespace", SourceRow(outSheet[i]))) = 0

\* What the normalization keeps of an address: the lower-case local part
\* without tag, without its dot on gmail.com and googlemail.com, and the
\* lower-case domain.
Normalized(a) ==
  [local  |-> IF a.dotted /\ a.domain \notin {GmailCom, GooglemailCom}
              THEN Dotted(a.local) ELSE a.local,
   domain |-> a.domain]

\* The banned domains of the probed list.
ListedDomains ==
  {DirtlegalCom} \cup (IF probe.cell.kind = "domain" THEN {probe.cell.domain} ELSE {})

\* C20: an address is banned if and only if its normalized form (lower-cased,
\* "mailto:" stripped, first token, "+tag" removed, dots removed from the
\* local part on gmail.com and googlemail.com) equals the normalized form of
\* a listed address, or its domain equals a banned domain d or ends with
\* "." followed by d.  A domain that merely ends with d is not banned.
C20_BannedEmailMatching ==
  (probe.fn = "isBannedEmail_" /\ probe.called) =>
    (probe.out <=>
       \/ /\ probe.cell.kind = "exact"
          /\ Normalized(probe.cell.addr) = Normalized(probe.addr)
       \/ \E d \in ListedDomains :
            \/ probe.addr.domain = d
            \/ /\ Len(probe.addr.domain) > Len(d)
               /\ SubSeq(probe.addr.domain, Len(probe.addr.domain) - Len(d),
                         Len(probe.addr.domain)) = <<".">> \o d)

\* C20 witness: with user@gmail.com listed, U.SER+X@GMAIL.COM was found
\* banned.
C20_Witness ==
  /\ probe.fn = "isBannedEmail_" /\ probe.called /\ probe.out
  /\ probe.cell = [kind |-> "exact", addr |-> PlainAddress(<<"u", "s", "e", "r">>, GmailCom)]
  /\ probe.addr.upper /\ probe.addr.tag /\ probe.addr.dotted
  /\ probe.addr.domain = GmailCom /\ probe.addr.local = <<"u", "s", "e", "r">>

\* An invocation stands after the start-up of buildAllOrdersClean: in a scan,
\* between the scans or before finish_.
PastStart ==
  pc \in {"processShopify", "shopifyLoop", "processSquarespace", "squarespaceLoop",
          "finish"}

\* C21: an invocation of buildAllOrdersClean that finds both raw sheets and no
\* persisted state truncates every body row of the output table and persists
\* the initial state {phase shopify, rowCursor 2, outRow 2, excluded 0,
\* written 0, lastOrderKey ""}, and it does so before any raw row is scanned:
\* the start-up step reads no row, and no invocation is in a scan without a
\* persisted state.
C21_FreshStart ==
  /\ [][(pc = "start" /\ ~PROPS.started /\ shopSheet.exists /\ sqSheet.exists) =>
          /\ outSheet' = <<>>
          /\ PROPS' = [started |-> TRUE, phase |-> "shopify", rowCursor |-> 2,
                       outRow |-> 2, excluded |-> 0, written |-> 0,
                       lastOrderKey |-> <<>>]
          /\ state' = PROPS'
          /\ scan' = NoScan
          /\ pc' = "processShopify"]_vars
  /\ [](PastStart => PROPS.started)

\* C21 witness: a fresh start has run on a workbook with Shopify rows and the
\* first chunk is about to be read.
C21_Witness ==
  /\ pc = "shopifyLoop"
  /\ scan.r = FIRST_DATA_ROW
  /\ PROPS = InitialState
  /\ outSheet = <<>>
  /\ Len(shopSheet.rows) > 0

\* The raw store of a platform has a row of that order id whose date parses.
RawDates(platform, orderId) ==
  IF platform = "Shopify"
  THEN {ShopifyOrderDate(shopSheet.rows[i]) :
          i \in {k \in 1..Len(shopSheet.rows) : shopSheet.rows[k].orderId = orderId}} \ {0}
  ELSE IF platform = "Squarespace"
  THEN {SquarespaceOrderDate(sqSheet.rows[i]) :
          i \in {k \in 1..Len(sqSheet.rows) : sqSheet.rows[k].orderId = orderId}} \ {0}
  ELSE {}

\* The body rows the backfill is to fill: a canonical row with a blank
\* order_date whose order has a date in the raw store of its platform.
BackfillTargets(body) ==
  {i \in 1..Len(body) :
     /\ body[i].platform # ""
     /\ body[i].orderId # ""
     /\ body[i].year = 0
     /\ RawDates(body[i].platform, body[i].orderId) # {}}

\* The sheet rows of the ranges written by a call.
RangeRows(writes) ==
  UNION {writes[k].start..(writes[k].start + Len(writes[k].buf) - 1) : k \in 1..Len(writes)}

\* C22: backfillOrderDatesInCleanMaster writes only order_date cells of
\* canonical rows whose date is blank and whose order has a date in the raw
\* store of its platform; the ranges of its contiguous-run batching cover
\* exactly those cells, each once, and every other cell keeps its value; a
\* second call immediately afterwards writes nothing.
C22_BackfillFrameAndIdempotence ==
  (probe.fn = "backfillOrderDatesInCleanMaster" /\ probe.calls >= 1) =>
    LET before  == probe.before
        targets == BackfillTargets(before)
    IN /\ Len(outSheet) = Len(before)
       /\ RangeRows(probe.writes) = {i + 1 : i \in targets}
       /\ SumSeq([k \in 1..Len(probe.writes) |-> Len(probe.writes[k].buf)])
            = Cardinality(targets)
       /\ \A i \in 1..Len(before) :
            IF i \in targets
            THEN \E y \in RawDates(before[i].platform, before[i].orderId) :
                   outSheet[i] = [before[i] EXCEPT !.year = y]
            ELSE outSheet[i] = before[i]
       /\ probe.calls = 2 => (probe.writes = <<>> /\ outSheet = before)

\* C22 witness: the first call filled rows 2 and 4 in two ranges, leaving the
\* row between them (an order without a raw date) blank, and the second call
\* has run.
C22_Witness ==
  /\ probe.fn = "backfillOrderDatesInCleanMaster"
  /\ probe.calls = 2
  /\ Len(outSheet) = 3
  /\ outSheet[1].orderId = "A" /\ outSheet[1].year = 2024
  /\ outSheet[2] = CleanLine("Shopify", "B", 0)
  /\ outSheet[3].orderId = "X" /\ outSheet[3].year = 2024

\* The raw lines of each Shopify order are contiguous: between two rows of
\* the Shopify sheet that are lines of one order, every row that is a line
\* is a line of that order (rows that the scan drops or skips may lie between).
ShopifyContiguous ==
  LET rows == shopSheet.rows
      IsLine(i) == FirstReason("Shopify", rows[i]) = "line"
  IN \A i, k \in 1..Len(rows) :
       (i < k /\ IsLine(i) /\ IsLine(k) /\ rows[i].orderId = rows[k].orderId) =>
         \A j \in (i + 1)..(k - 1) : IsLine(j) => rows[j].orderId = rows[i].orderId

InScanOrder(body) ==
  \A i, j \in 1..Len(body) :
    i < j =>
      \/ body[i].platform = "Shopify" /\ body[j].platform = "Squarespace"
      \/ body[i].platform = body[j].platform /\ body[i].src < body[j].src

\* C24: in every persisted build state outRow = 2 + written, and output rows
\* 2 .. outRow-1 are canonical lines in scan order; every write to the output
\* table is one contiguous range that starts at the in-memory outRow, which
\* is the row after the last row of the table, so that no write changes a row
\* written before and no blank row is left between writes (the fresh start
\* and the reset empty the body instead).
C24_OutputCursor ==
  /\ [](PROPS.started =>
          /\ PROPS.outRow = 2 + PROPS.written
          /\ Len(outSheet) >= PROPS.written
          /\ \A i \in 1..PROPS.written : outSheet[i] # BlankLine
          /\ InScanOrder(SubSeq(outSheet, 1, PROPS.written)))
  /\ [][outSheet' # outSheet =>
          \/ outSheet' = <<>>
          \/ /\ state.started
             /\ state.outRow = FIRST_DATA_ROW + Len(outSheet)
             /\ Len(outSheet') > Len(outSheet)
             /\ SubSeq(outSheet', 1, Len(outSheet)) = outSheet
             /\ \A i \in 1..Len(outSheet') : outSheet'[i] # BlankLine
             /\ LET after == IF state'.started THEN state' ELSE PROPS'
                IN /\ after.outRow = FIRST_DATA_ROW + Len(outSheet')
                   /\ after.written = Len(outSheet')]_vars

\* C24 witness: a persisted state counts the lines of two batches, one of
\* Shopify lines and one written by a pause of the Squarespace scan.
C24_Witness ==
  /\ Paused
  /\ PROPS.started
  /\ PROPS.written = 3
  /\ PROPS.outRow = 5
  /\ outSheet[1].platform = "Shopify"
  /\ outSheet[3].platform = "Squarespace"

\* The data rows of both raw sheets, as <<platform, row>>.
RawSrc ==
  {<<"Shopify", i + FIRST_DATA_ROW - 1>> : i \in 1..Len(shopSheet.rows)}
    \cup {<<"Squarespace", i + FIRST_DATA_ROW - 1>> : i \in 1..Len(sqSheet.rows)}

\* C25: when a build completes, every data row of both raw sheets has been
\* classified exactly once: written as one canonical line, excluded and
\* counted, or silently skipped (fully blank, empty product name, or no
\* Squarespace order id); so written + excluded + skipped is the number of
\* raw data rows, and written is the number of body rows of the table.
C25_RowAccounting ==
  Done =>
    LET skipped == RawSrc \ (WrittenSrc \cup hist.dropped) IN
    /\ WrittenSrc \cap hist.dropped = {}
    /\ WrittenSrc \cup hist.dropped \subseteq RawSrc
    /\ \A src \in skipped :
         FirstReason(src[1], RawRow(src)) \in {"blank", "noid", "noproduct"}
    /\ result.written = Cardinality(WrittenSrc)
    /\ result.written = Len(outSheet)
    /\ result.excluded = Cardinality(hist.dropped)
    /\ result.written + result.excluded + Cardinality(skipped) = Cardinality(RawSrc)

\* A step scans a chunk: the invocation stands at the top of a chunk and is
\* still in the loop afterwards, further down the sheet.
ChunkScanned == AtChunk /\ pc' = pc /\ scan'.r > scan.r

\* lastRow of the sheet of a phase
LastRowOf(phase) == IF phase = "shopify" THEN LastRow(shopSheet) ELSE LastRow(sqSheet)

SameRow(a, b) == a.platform = b.platform /\ a.src = b.src

\* C27: when invocations were killed by the host and the build was re-invoked
\* until it completed, every line of the table an uninterrupted build writes
\* is in the table (a line of the same raw row; the very line when no
\* invocation of the build paused), and a raw row has two lines only if it is
\* a row of a chunk that was being scanned at a kill.
C27_CrashTolerance ==
  (Done /\ probe.fn = "kill" /\ probe.kills > 0) =>
    LET U == Uninterrupted(shopSheet, sqSheet).outSheet IN
    /\ \A i \in 1..Len(U) : \E j \in 1..Len(outSheet) :
         /\ SameRow(outSheet[j], U[i])
         /\ hist.pauses = {} => outSheet[j] = U[i]
    /\ \A j, k \in 1..Len(outSheet) :
         (j # k /\ SameRow(outSheet[j], outSheet[k])) =>
           <<outSheet[j].platform, outSheet[j].src>> \in probe.inflight

\* C27 witness: a build of lines of both platforms has completed after two
\* kills, one of them between a write of the output and the write of the
\* property, with a chunk of each platform under way at a kill.
C27_Witness ==
  /\ Done
  /\ probe.fn = "kill"
  /\ probe.kills = 2
  /\ probe.torn
  /\ \E r \in 2..5 : <<"Shopify", r>> \in probe.inflight
  /\ \E r \in 2..5 : <<"Squarespace", r>> \in probe.inflight
  /\ \E i, j \in 1..Len(outSheet) :
       outSheet[i].platform = "Shopify" /\ outSheet[j].platform = "Squarespace"

\* C28: every step by which an invocation of buildAllOrdersClean that was
\* granted the lock leaves the function (completion, pause, thrown error)
\* releases the lock, so that whenever no invocation runs the lock is free
\* and tryLock of the next invocation is granted.
C28_LockReleasedOnEveryExit ==
  /\ [][(pc # "idle" /\ pc' = "idle") =>
          /\ result'.kind \in {"complete", "paused", "threw"}
          /\ ~lock'
          /\ inside' = 0]_vars
  /\ [](pc = "idle" => (~lock /\ inside = 0 /\ tryLock(lock)))

\* C28 witness: an invocation wrote the Shopify lines and then threw on a
\* missing Squarespace column; no invocation runs and the lock is free.
C28_Witness ==
  /\ pc = "idle"
  /\ result.kind = "threw"
  /\ PROPS.started
  /\ PROPS.phase = "squarespace"
  /\ PROPS.written > 0
  /\ ~lock

\* C29: from the return of resetCleanMasterBuildState until the next
\* invocation of buildAllOrdersClean starts there is no persisted build state
\* and the output body is empty, also when a build invocation runs beside the
\* reset; the invocation that starts next finds no state (line 206) and
\* starts fresh.
C29_ResetEffectiveUnderConcurrency ==
  /\ [](probe.fn = "resetCleanMasterBuildState" /\ probe.at = "returned" =>
          (PROPS = NoState /\ outSheet = <<>>))
  /\ [][(probe.fn = "resetCleanMasterBuildState" /\ probe.at = "returned"
          /\ pc = "idle" /\ pc' = "start") => ~PROPS.started]_vars

\* C30: while a pipeline entry point is inside buildOrdersSummaryReport no
\* persisted build state exists: the report is not called after
\* buildAllOrdersClean returned its paused message.
C30_ReportsOnlyFromCompletedTable ==
  (probe.fn = "pipeline" /\ probe.at = "summary") =>
    (~PROPS.started /\ result.kind = "complete")

====
